---- MODULE Spec2Model ----
(***************************************************************************)
(* Authentication, session and authorization core of the Singr system API: *)
(* the refresh-token store, the permission resolver and its versioned      *)
(* cache, the sliding-window rate limiter and the per-request              *)
(* authorization context.                                                  *)
(*                                                                         *)
(* Conventions.  An optional value (null / undefined in the source) is a   *)
(* sequence of length 0 or 1: None is <<>>, Some(x) is <<x>>.  A string    *)
(* that the code splits or concatenates is a sequence of its pieces.       *)
(* randomUUID() and the random suffix of a rate-limit marker are drawn     *)
(* from a counter: they are taken to be fresh, as 122 resp. 52 random bits *)
(* are in practice.  SHA-256 is taken to be injective: a digest is the     *)
(* hashed value under a tag.                                               *)
(***************************************************************************)
EXTENDS Integers, Sequences, FiniteSets, TLC

None == <<>>
Some(x) == <<x>>

\* ------------------------------------------------------------------------
\* Bounds of the model
\* ------------------------------------------------------------------------

\* refresh tokens generated in one behaviour
MaxTokens == 3

\* writes to organization_users rows, each stamped by the next NOW()
MaxDbTime == 2
\* getOrganizationPermissions calls in one behaviour
MaxResolves == 3

\* options.limit and options.windowMs of the rate-limit checks
Limit == 2
WindowMs == 3
\* the last millisecond of the clock
MaxClock == 4
\* rate-limit checks started in one behaviour
MaxCalls == 4
\* PERMISSION_CACHE_TTL_SECONDS, in units of permClock
PermTtl == 2
\* The time the permission cache is observed for
MaxPermClock == 3
\* the permission slugs one call of computePermissionCacheVersion is given
MaxSlugs == 2
\* createRequest calls started in one behaviour
MaxRequests == 4

Users == {"u1", "u2"}
Orgs == {"o1"}
\* The customer profiles (organizations) there are
CustomerIds == {"o1", "o2"}
RotateCallers == {"r1", "r2"}
\* the values of the random secret of a refresh token
Secrets == {1, 2}

VARIABLES
    refreshStore,   \* redis keys auth:refresh:{userId}:{tokenId} -> hex digest
    nextTokenId,    \* the next value randomUUID() returns
    rot,            \* the rotate() calls in flight, one per caller
    rotAnswer,      \* history: the rotate() call answered last
    rotHist,        \* history: the rotations that returned a new token
    issuedTokens,   \* history: every token issue() returned, with its user
    deadTokens,     \* history: the <<userId, tokenId>> revoked or expired
    so,             \* the signOut() call in flight
    storeCall       \* history: the verify() or signOut() call answered last

refreshVars == <<refreshStore, nextTokenId, rot, rotAnswer, rotHist,
                 issuedTokens, deadTokens, so, storeCall>>

VARIABLES
    membership,     \* organization_users rows, by <<userId, customerProfileId>>
    rolePerms,      \* role_permissions: role slug -> permission slugs
    dbNow,          \* the last timestamp NOW() gave to a membership write
    permCache,      \* redis keys permissions:{userId}:{organizationId}:{version}
    permOrder,      \* the keys of permCache, the one whose TTL ends first in front
    heldHint,       \* the permissionsHash of the claim a client holds, if any
    resolves,       \* the number of getOrganizationPermissions calls made
    resolved,       \* history: the last getOrganizationPermissions call
    permClock,      \* the time, in units of which the cache TTL is counted
    permStamp,      \* history: when each key of permCache was read from the
                    \* store and written, and when the store last held it
    resolving       \* the getOrganizationPermissions call between its read of
                    \* the store and its writes to the cache

permVars == <<membership, rolePerms, dbNow, permCache, permOrder, heldHint, resolves,
              resolved, permClock, permStamp, resolving>>

VARIABLES
    clock,          \* Date.now(), in ms
    rlLog,          \* redis sorted sets ratelimit:{key}: the markers of each key
    rlDeadline,     \* the time each key expires at (PEXPIRE)
    nextRandom,     \* the next value Math.random() returns
    rl,             \* the enforceSlidingWindowLimit calls in flight, one per caller
    rlCalls,        \* the number of checks started
    rlHist,         \* history: the checks whose transaction ran, in commit order
    rlLast          \* history: the check answered last

rateVars == <<clock, rlLog, rlDeadline, nextRandom, rl, rlCalls, rlHist, rlLast>>

VARIABLES
    authUser,       \* request.authorization: the user of the AuthorizationContext
    authError,      \* request.authorization: its retained verification error
    authRequest,    \* history: the token the onRequest hook was given
    authzCall,      \* history: the last requireOrganizationPermission call
    authzProbe      \* history: the last round of has... and requireUser calls

authzVars == <<authUser, authError, authRequest, authzCall, authzProbe>>

VARIABLES
    pipe            \* the request in the server: its place in the pipeline and
                    \* the history of what was done for it

pipeVars == <<pipe>>

VARIABLES
    customerProfile,    \* customer_profiles: the profile each user owns, if any
    singerProfile,      \* singer_profiles: the profile of each user, if any
    mint                \* history: the last createSession or createAccessToken call

tokenVars == <<customerProfile, singerProfile, mint>>

VARIABLES
    versionCheck    \* history: the two computePermissionCacheVersion calls made

versionVars == <<versionCheck>>

VARIABLES
    rqLog,          \* redis sorted sets ratelimit:singer:requests:{id} and
                    \* ratelimit:venue:requests:{id}: the markers of each key
    rqDeadline,     \* the time each of these keys expires at (PEXPIRE)
    rqDb,           \* the request rows, history rows and notification jobs made
    rq,             \* the createRequest call in flight
    rqCalls,        \* the number of createRequest calls started
    rqLast          \* history: the last createRequest call that reached its checks

requestVars == <<rqLog, rqDeadline, rqDb, rq, rqCalls, rqLast>>

\* What the actions of one component leave unchanged
notRefreshVars == <<permVars, rateVars, authzVars, pipeVars, tokenVars, versionVars, requestVars>>
notPermVars == <<refreshVars, rateVars, authzVars, pipeVars, tokenVars, versionVars, requestVars>>
notRateVars == <<refreshVars, permVars, authzVars, pipeVars, tokenVars, versionVars, requestVars>>
notAuthzVars == <<refreshVars, permVars, rateVars, pipeVars, tokenVars, versionVars, requestVars>>
notPipeVars == <<refreshVars, permVars, rateVars, authzVars, tokenVars, versionVars, requestVars>>
notTokenVars == <<rateVars, authzVars, pipeVars, versionVars, requestVars>>
notVersionVars == <<refreshVars, permVars, rateVars, authzVars, pipeVars, tokenVars, requestVars>>
notRequestVars == <<refreshVars, permVars, authzVars, pipeVars, tokenVars, versionVars>>

\* ------------------------------------------------------------------------
\* The key-value store (redis GET / SET / DEL on one namespace)
\* ------------------------------------------------------------------------

RedisGet(store, key) == IF key \in DOMAIN store THEN Some(store[key]) ELSE None

RedisSet(store, key, value) ==
    [k \in DOMAIN store \cup {key} |-> IF k = key THEN value ELSE store[k]]

RedisDel(store, key) == [k \in DOMAIN store \ {key} |-> store[k]]

\* ------------------------------------------------------------------------
\* RefreshTokenStore (auth/refresh-token-store.ts)
\* ------------------------------------------------------------------------

\* A token string `${tokenId}.${secret}` is the sequence of its '.'-separated
\* parts; a part is a number, 0 standing for the empty string.
hashToken(token) == <<"sha256", token>>

generateToken(tokenId, secret) ==
    [token |-> <<tokenId, secret>>, tokenId |-> tokenId,
     hash |-> hashToken(<<tokenId, secret>>)]

buildRedisKey(userId, tokenId) == <<"auth:refresh", userId, tokenId>>

parseToken(token) ==
    IF Len(token) < 2 THEN None
    ELSE IF token[1] = 0 THEN None
    ELSE Some(token[1])

VerifyByKey(store, userId, token) ==
    LET parsed == parseToken(token) IN
    IF parsed = None THEN None
    ELSE IF RedisGet(store, buildRedisKey(userId, parsed[1])) = None THEN None
    ELSE Some(parsed[1])

\* verify(userId, token): the tokenId when the stored digest equals the digest
\* of the presented token, else null.
verify(store, userId, token) ==
    LET parsed == parseToken(token) IN
    IF parsed = None THEN None
    ELSE LET stored == RedisGet(store, buildRedisKey(userId, parsed[1])) IN
         IF stored = None THEN None
         ELSE IF stored[1] # hashToken(token) THEN None
         ELSE Some(parsed[1])

RevokeKept(store, userId, tokenId) == store

revoke(store, userId, tokenId) == RedisDel(store, buildRedisKey(userId, tokenId))

issue(store, userId, generated) ==
    RedisSet(store, buildRedisKey(userId, generated.tokenId), generated.hash)

\* The tokens a caller may present: well-formed ones (issued or guessed), a
\* token with an empty tokenId, and a string without a '.'.
PresentedTokens ==
    {<<i, s>> : i \in 0..MaxTokens, s \in Secrets} \cup {<<i>> : i \in 1..MaxTokens}

IdleRotate == [pc |-> "idle", user |-> "u1", token |-> <<0>>, tokenId |-> 0,
               late |-> FALSE]

NoAnswer == [outcome |-> "none", result |-> None, late |-> FALSE]

\* The tokens verify() and signOut() are called with: those of PresentedTokens,
\* a token with an empty secret and a token with a third part.
VerifyTokens ==
    PresentedTokens \cup {<<i, 0>> : i \in 1..MaxTokens}
                    \cup {<<i, s, 1>> : i \in 1..MaxTokens, s \in Secrets}

\* What a caller holds when it presents token under userId: the token as
\* issued to that user ("live", or "dead" once revoked or expired), a token
\* issued to another user, the tokenId of a live token of the user with
\* something else than its secret, a string parseToken rejects, or anything
\* else.
Presented(issued, dead, userId, token) ==
    IF [user |-> userId, token |-> token] \in issued
    THEN (IF <<userId, token[1]>> \in dead THEN "dead" ELSE "live")
    ELSE IF parseToken(token) = None THEN "malformed"
    ELSE IF \E t \in issued : t.token = token /\ <<t.user, token[1]>> \notin dead
    THEN "other-user"
    ELSE IF \E t \in issued : /\ t.user = userId
                               /\ t.token[1] = token[1]
                               /\ <<userId, token[1]>> \notin dead
    THEN "wrong-secret"
    ELSE "unknown"

ReadFailureAsNull == "null"

\* How a call ends whose redis.get() rejects: nothing catches the rejection
\* (verify line 54, rotate line 78, signOut).
ReadFailure == "throws"

\* How verify(userId, token) ends, with the store up or down: "tokenId",
\* "null" or "throws".  A token that does not parse is answered before the
\* store is read.
verifyOutcome(store, up, userId, token) ==
    IF parseToken(token) = None THEN "null"
    ELSE IF ~up THEN ReadFailure
    ELSE IF verify(store, userId, token) = None THEN "null"
    ELSE "tokenId"

RevokeUnverified(store, userId, token) ==
    IF parseToken(token) = None THEN store
    ELSE RedisDel(store, buildRedisKey(userId, parseToken(token)[1]))

\* The store after rotate() has verified the token (lines 78-81): verify only
\* reads.
AfterVerification(store, userId, token) == store

IdleSignOut == [pc |-> "idle", user |-> "u1", tokenId |-> 0]

NoStoreCall == [op |-> "none", outcome |-> "none", input |-> "none", down |-> FALSE,
                user |-> "u1", before |-> {}]

RefreshInit ==
    /\ refreshStore = << >>
    /\ nextTokenId = 1
    /\ rot = [p \in RotateCallers |-> IdleRotate]
    /\ rotAnswer = NoAnswer
    /\ rotHist = {}
    /\ issuedTokens = {}
    /\ deadTokens = {}
    /\ so = IdleSignOut
    /\ storeCall = NoStoreCall

\* issue(userId), as createSession calls it.
Issue(u) ==
    /\ nextTokenId <= MaxTokens
    /\ \E s \in Secrets :
         /\ refreshStore' = issue(refreshStore, u, generateToken(nextTokenId, s))
         /\ issuedTokens' = issuedTokens \cup
                {[user |-> u, token |-> generateToken(nextTokenId, s).token]}
    /\ nextTokenId' = nextTokenId + 1
    /\ UNCHANGED <<rot, rotAnswer, rotHist, deadTokens, so, storeCall>>
    /\ UNCHANGED notRefreshVars

\* rotate(), lines 78-81: await this.verify(userId, token); a failed
\* verification ends the call with null.
RotateVerify(p, u, tok) ==
    /\ rot[p].pc = "idle"
    /\ LET v == verify(refreshStore, u, tok)
           late == \E h \in rotHist : h.user = u /\ h.token = tok IN
       IF v = None
       THEN /\ rotAnswer' = [outcome |-> "null", result |-> None, late |-> late]
            /\ rot' = rot
       ELSE /\ rot' = [rot EXCEPT ![p] = [pc |-> "revoke", user |-> u, token |-> tok,
                                          tokenId |-> v[1], late |-> late]]
            /\ rotAnswer' = rotAnswer
    /\ refreshStore' = AfterVerification(refreshStore, u, tok)
    /\ UNCHANGED <<nextTokenId, rotHist, issuedTokens, deadTokens, so, storeCall>>
    /\ UNCHANGED notRefreshVars

\* rotate(), line 83: await this.revoke(userId, verification.tokenId).
RotateRevoke(p) ==
    /\ rot[p].pc = "revoke"
    /\ refreshStore' = revoke(refreshStore, rot[p].user, rot[p].tokenId)
    /\ rot' = [rot EXCEPT ![p].pc = "issue"]
    /\ deadTokens' = deadTokens \cup {<<rot[p].user, rot[p].tokenId>>}
    /\ UNCHANGED <<nextTokenId, rotAnswer, rotHist, issuedTokens, so, storeCall>>
    /\ UNCHANGED notRefreshVars

\* rotate(), line 84: return this.issue(userId); the caller has its answer.
RotateIssue(p) ==
    /\ rot[p].pc = "issue"
    /\ nextTokenId <= MaxTokens
    /\ \E s \in Secrets :
         LET generated == generateToken(nextTokenId, s) IN
         /\ refreshStore' = issue(refreshStore, rot[p].user, generated)
         /\ rotAnswer' = [outcome |-> "token", result |-> Some(generated.token),
                          late |-> rot[p].late]
         /\ rotHist' = rotHist \cup
                {[user |-> rot[p].user, token |-> rot[p].token, new |-> generated.token]}
         /\ issuedTokens' = issuedTokens \cup
                {[user |-> rot[p].user, token |-> generated.token]}
    /\ rot' = [rot EXCEPT ![p] = IdleRotate]
    /\ nextTokenId' = nextTokenId + 1
    /\ UNCHANGED <<deadTokens, so, storeCall>>
    /\ UNCHANGED notRefreshVars

\* rotate(), line 78, with the store down: the read of verify() rejects and
\* so does rotate().
RotateVerifyThrows(p, u, tok) ==
    /\ rot[p].pc = "idle"
    /\ parseToken(tok) # None
    /\ rotAnswer' = [outcome |-> verifyOutcome(refreshStore, FALSE, u, tok),
                     result |-> None,
                     late |-> \E h \in rotHist : h.user = u /\ h.token = tok]
    /\ UNCHANGED <<refreshStore, nextTokenId, rot, rotHist, issuedTokens, deadTokens,
                   so, storeCall>>
    /\ UNCHANGED notRefreshVars

\* verify(userId, token), as verifyRefreshToken calls it.  A behaviour keeps
\* the answer of one verify() or signOut() call.
Verify(u, tok, up) ==
    /\ storeCall.op = "none"
    /\ storeCall' = [op |-> "verify",
                     outcome |-> verifyOutcome(refreshStore, up, u, tok),
                     input |-> Presented(issuedTokens, deadTokens, u, tok),
                     down |-> ~up, user |-> "u1", before |-> {}]
    /\ UNCHANGED <<refreshStore, nextTokenId, rot, rotAnswer, rotHist, issuedTokens,
                   deadTokens, so>>
    /\ UNCHANGED notRefreshVars

\* The TTL of a key ends: the keys are set with one ttlSeconds, so the oldest
\* goes first.
ExpireRefreshToken ==
    /\ DOMAIN refreshStore # {}
    /\ LET key == CHOOSE k \in DOMAIN refreshStore :
                      \A j \in DOMAIN refreshStore : k[3] <= j[3]
       IN /\ refreshStore' = RedisDel(refreshStore, key)
          /\ deadTokens' = deadTokens \cup {<<key[2], key[3]>>}
    /\ UNCHANGED <<nextTokenId, rot, rotAnswer, rotHist, issuedTokens, so, storeCall>>
    /\ UNCHANGED notRefreshVars

\* AuthService.signOut, first await: verifyRefreshToken(userId, refreshToken);
\* without a verification the call returns.
SignOutVerify(u, tok, up) ==
    /\ so.pc = "idle"
    /\ storeCall.op = "none"
    /\ LET outcome == verifyOutcome(refreshStore, up, u, tok) IN
       IF outcome = "tokenId"
       THEN /\ so' = [pc |-> "revoke", user |-> u,
                      tokenId |-> verify(refreshStore, u, tok)[1]]
            /\ storeCall' = storeCall
       ELSE /\ so' = so
            /\ storeCall' = [op |-> "signOut",
                             outcome |-> IF outcome = "null" THEN "returns" ELSE outcome,
                             input |-> Presented(issuedTokens, deadTokens, u, tok),
                             down |-> ~up, user |-> u, before |-> {}]
    /\ UNCHANGED <<refreshStore, nextTokenId, rot, rotAnswer, rotHist, issuedTokens,
                   deadTokens>>
    /\ UNCHANGED notRefreshVars

\* AuthService.signOut, second await: revokeRefreshToken(userId, tokenId).
SignOutRevoke ==
    /\ so.pc = "revoke"
    /\ refreshStore' = revoke(refreshStore, so.user, so.tokenId)
    /\ deadTokens' = deadTokens \cup {<<so.user, so.tokenId>>}
    /\ storeCall' = [op |-> "signOut", outcome |-> "returns", input |-> "live",
                     down |-> FALSE, user |-> so.user,
                     before |-> {t.token : t \in {i \in issuedTokens : i.user = so.user}}]
    /\ so' = IdleSignOut
    /\ UNCHANGED <<nextTokenId, rot, rotAnswer, rotHist, issuedTokens>>
    /\ UNCHANGED notRefreshVars

RefreshNext ==
    \/ \E u \in Users : Issue(u)
    \/ \E p \in RotateCallers, u \in Users, tok \in PresentedTokens : RotateVerify(p, u, tok)
    \/ \E p \in RotateCallers : RotateRevoke(p)
    \/ \E p \in RotateCallers : RotateIssue(p)

\* ------------------------------------------------------------------------
\* Strings.  A string is the sequence of its character codes.
\* ------------------------------------------------------------------------

Bar == <<124>>          \* "|"
VersionZero == <<118, 48>>   \* "v0"

RECURSIVE LexLess(_, _)
\* a < b in the order Array.prototype.sort() uses (code units, prefix first)
LexLess(a, b) ==
    IF b = <<>> THEN FALSE
    ELSE IF a = <<>> THEN TRUE
    ELSE IF a[1] # b[1] THEN a[1] < b[1]
    ELSE LexLess(Tail(a), Tail(b))

RECURSIVE SortStrings(_)
\* Array.from(set).sort()
SortStrings(S) ==
    IF S = {} THEN <<>>
    ELSE LET m == CHOOSE x \in S : \A y \in S \ {x} : LexLess(x, y)
         IN <<m>> \o SortStrings(S \ {m})

\* Date.prototype.toISOString() of the n-th timestamp: one digit character
toISOString(n) == <<48 + n>>

\* ------------------------------------------------------------------------
\* computePermissionCacheVersion (lib/prisma.ts)
\* ------------------------------------------------------------------------

RECURSIVE HashPermissions(_)
\* for (const permission of normalized) { hash.update('|'); hash.update(permission) }
HashPermissions(normalized) ==
    IF normalized = <<>> THEN <<>>
    ELSE Bar \o Head(normalized) \o HashPermissions(Tail(normalized))

\* The sha256 hex digest of what was fed to the hash: the input under the tag 256.
computePermissionCacheVersion(roleSlug, permissions, updatedAt) ==
    <<256>> \o (IF roleSlug = None THEN <<>> ELSE roleSlug[1])
            \o HashPermissions(SortStrings(permissions))
            \o (IF updatedAt = None THEN <<>> ELSE Bar \o toISOString(updatedAt[1]))

\* ------------------------------------------------------------------------
\* The relational store: memberships, roles, permissions
\* ------------------------------------------------------------------------

RoleAdmin == <<97>>     \* a role slug, "a"
Roles == {RoleAdmin}
PermX == <<120>>        \* a permission slug, "x"
PermY == <<121>>        \* a permission slug, "y"
Perms == {PermX, PermY}
Statuses == {"invited", "active", "suspended", "revoked"}

\* OrganizationUserService.inviteUser: a new row, status invited.
inviteUser(rows, o, u, roleId, now) ==
    [rows EXCEPT ![<<u, o>>] =
        Some([status |-> "invited", role |-> roleId, direct |-> {}, updatedAt |-> now])]

\* OrganizationUserService.updateUser: roleId and status when given; the
\* set_updated_at trigger stamps the row.
updateUser(rows, o, u, roleId, status, now) ==
    LET row == rows[<<u, o>>][1] IN
    [rows EXCEPT ![<<u, o>>] =
        Some([status |-> IF status = None THEN row.status ELSE status[1],
              role |-> IF roleId = None THEN row.role ELSE roleId[1],
              direct |-> row.direct,
              updatedAt |-> now])]

\* OrganizationUserService.removeUser
removeUser(rows, o, u) == [rows EXCEPT ![<<u, o>>] = None]

\* ------------------------------------------------------------------------
\* PermissionService (auth/permission-service.ts)
\* ------------------------------------------------------------------------

buildCacheKey(userId, organizationId, versionHint) ==
    <<userId, organizationId, IF versionHint = None THEN VersionZero ELSE versionHint[1]>>

\* prisma.organizationUser.findUnique by (customerProfileId, userId), with the
\* role's permissions and the direct grants: the row, whatever its status.
FindMembership(userId, organizationId) == membership[<<userId, organizationId>>]

FindActiveMembership(userId, organizationId) ==
    LET m == membership[<<userId, organizationId>>] IN
    IF m # None /\ m[1].status = "active" THEN m ELSE None

\* Lines 419-445: the payload built from a membership row.
BuildPayload(organizationId, row) ==
    LET permissions == (IF row.role = None THEN {} ELSE rolePerms[row.role[1]])
                       \cup row.direct
    IN [organizationId |-> organizationId,
        roleSlug |-> row.role,
        permissions |-> SortStrings(permissions),
        version |-> computePermissionCacheVersion(row.role, permissions,
                                                  Some(row.updatedAt))]

\* The cache after a miss: the payload under the hinted key (line 447) and,
\* when the hint is not the computed version, under the version's key too.
CacheHintOnly(cache, userId, organizationId, hint, payload) ==
    RedisSet(cache, buildCacheKey(userId, organizationId, hint), payload)

CacheAfterMiss(cache, userId, organizationId, hint, payload) ==
    LET first == RedisSet(cache, buildCacheKey(userId, organizationId, hint), payload)
    IN IF payload.version # (IF hint = None THEN VersionZero ELSE hint[1])
       THEN RedisSet(first, buildCacheKey(userId, organizationId, Some(payload.version)),
                     payload)
       ELSE first

\* SET key value EX ttl on the TTL order: the key goes last, every entry
\* having the same TTL.
RECURSIVE Without(_, _)
Without(order, key) ==
    IF order = <<>> THEN <<>>
    ELSE IF Head(order) = key THEN Without(Tail(order), key)
    ELSE <<Head(order)>> \o Without(Tail(order), key)

Touch(order, key) == Without(order, key) \o <<key>>

OrderAfterMiss(order, userId, organizationId, hint, payload) ==
    LET first == Touch(order, buildCacheKey(userId, organizationId, hint))
    IN IF payload.version # (IF hint = None THEN VersionZero ELSE hint[1])
       THEN Touch(first, buildCacheKey(userId, organizationId, Some(payload.version)))
       ELSE first

\* TRUE when `payload` is what the relational store holds for the membership.
Held(userId, organizationId, payload) ==
    LET m == FindMembership(userId, organizationId)
    IN m # None /\ payload = BuildPayload(organizationId, m[1])

\* The history of a payload read from the store at `now`.
ReadStamp(userId, organizationId, payload, now) ==
    [at |-> now, readAt |-> now, trueAt |-> now,
     authoritative |-> Held(userId, organizationId, payload)]

\* SET key value EX ttl on the history of the writes: each key written gets
\* the history of the payload written.
StampAfterMiss(stamps, userId, organizationId, hint, payload, stamp) ==
    LET first == RedisSet(stamps, buildCacheKey(userId, organizationId, hint), stamp)
    IN IF payload.version # (IF hint = None THEN VersionZero ELSE hint[1])
       THEN RedisSet(first, buildCacheKey(userId, organizationId, Some(payload.version)),
                     stamp)
       ELSE first

ExpiresLate(writtenAt) == writtenAt + PermTtl + 2

\* EX PERMISSION_CACHE_TTL_SECONDS: the time a key written at `writtenAt` is
\* deleted at.
ExpiresAt(writtenAt) == writtenAt + PermTtl

PermUser == "u1"

NotResolving ==
    [pc |-> "idle", user |-> PermUser, org |-> "o1", hint |-> None, stale |-> FALSE,
     active |-> FALSE, payload |-> None, stamp |-> ReadStamp(PermUser, "o1", None, 0)]

NoResolution ==
    [hit |-> FALSE, null |-> TRUE, stale |-> FALSE, active |-> FALSE, fresh |-> TRUE,
     age |-> 0, lag |-> 0, staleness |-> 0, authoritative |-> TRUE]

PermInit ==
    /\ membership = [k \in Users \X CustomerIds |->
                       IF k = <<PermUser, "o1">>
                       THEN Some([status |-> "active", role |-> Some(RoleAdmin),
                                  direct |-> {}, updatedAt |-> 0])
                       ELSE None]
    /\ rolePerms = [r \in Roles |-> {PermX, PermY}]
    /\ dbNow = 0
    /\ permCache = << >>
    /\ permOrder = << >>
    /\ heldHint = None
    /\ resolves = 0
    /\ resolved = NoResolution
    /\ permClock = 0
    /\ permStamp = << >>
    /\ resolving = NotResolving

\* getOrganizationPermissions(userId, organization), the whole call.  With
\* `adopt` the caller keeps the returned version as its next hint (a token is
\* minted from the result).  The history keeps what the store held when the call was made: whether the
\* hint was stale, whether the membership was active, and whether the result
\* is the payload of the row as it was then.
GetOrganizationPermissions(u, o, hint, adopt) ==
    LET cacheKey == buildCacheKey(u, o, hint)
        cached == RedisGet(permCache, cacheKey)
        m == FindMembership(u, o)
        current == IF m = None THEN None ELSE Some(BuildPayload(o, m[1]))
        result == IF cached # None THEN cached ELSE current
    IN /\ resolves < MaxResolves
       /\ resolves' = resolves + 1
       /\ permCache' = IF cached # None \/ m = None THEN permCache
                       ELSE CacheAfterMiss(permCache, u, o, hint, current[1])
       /\ permOrder' = IF cached # None \/ m = None THEN permOrder
                        ELSE OrderAfterMiss(permOrder, u, o, hint, current[1])
       /\ heldHint' = IF adopt /\ result # None THEN Some(result[1].version) ELSE heldHint
       /\ permStamp' = IF cached # None \/ m = None THEN permStamp
                        ELSE StampAfterMiss(permStamp, u, o, hint, current[1],
                                            ReadStamp(u, o, current[1], permClock))
       /\ resolved' = [hit |-> cached # None,
                       null |-> result = None,
                       stale |-> hint # None /\ (current = None \/ current[1].version # hint[1]),
                       active |-> FindActiveMembership(u, o) # None,
                       fresh |-> result = current,
                       age |-> IF cached # None THEN permClock - permStamp[cacheKey].at
                               ELSE 0,
                       lag |-> IF cached # None
                               THEN permStamp[cacheKey].at - permStamp[cacheKey].readAt
                               ELSE 0,
                       staleness |-> IF cached # None /\ result # current
                                     THEN permClock - permStamp[cacheKey].trueAt
                                     ELSE 0,
                       authoritative |-> IF cached # None
                                         THEN permStamp[cacheKey].authoritative
                                         ELSE TRUE]
       /\ UNCHANGED <<membership, rolePerms, dbNow, permClock, resolving>>
       /\ UNCHANGED notPermVars

\* getOrganizationPermissions to the end of its read of the store (lines
\* 384-445): the cache held nothing under the key and the membership exists.
ResolveRead(u, o, hint) ==
    LET m == FindMembership(u, o)
        payload == BuildPayload(o, m[1])
    IN /\ resolving.pc = "idle"
       /\ resolves < MaxResolves
       /\ RedisGet(permCache, buildCacheKey(u, o, hint)) = None
       /\ m # None
       /\ resolves' = resolves + 1
       /\ resolving' = [pc |-> "read", user |-> u, org |-> o, hint |-> hint,
                        stale |-> hint # None /\ payload.version # hint[1],
                        active |-> FindActiveMembership(u, o) # None,
                        payload |-> Some(payload),
                        stamp |-> ReadStamp(u, o, payload, permClock)]
       /\ UNCHANGED <<membership, rolePerms, dbNow, permCache, permOrder, heldHint,
                      resolved, permClock, permStamp>>
       /\ UNCHANGED notPermVars

\* getOrganizationPermissions from its writes to the cache to its return
\* (lines 447-454).
ResolveWrite ==
    LET u == resolving.user
        o == resolving.org
        payload == resolving.payload[1]
        stamp == [resolving.stamp EXCEPT !.at = permClock]
    IN /\ resolving.pc = "read"
       /\ permCache' = CacheAfterMiss(permCache, u, o, resolving.hint, payload)
       /\ permOrder' = OrderAfterMiss(permOrder, u, o, resolving.hint, payload)
       /\ permStamp' = StampAfterMiss(permStamp, u, o, resolving.hint, payload, stamp)
       /\ resolved' = [hit |-> FALSE,
                       null |-> FALSE,
                       stale |-> resolving.stale,
                       active |-> resolving.active,
                       fresh |-> Held(u, o, payload),
                       age |-> 0,
                       lag |-> stamp.at - stamp.readAt,
                       staleness |-> IF Held(u, o, payload) THEN 0
                                     ELSE permClock - stamp.trueAt,
                       authoritative |-> stamp.authoritative]
       /\ resolving' = NotResolving
       /\ UNCHANGED <<membership, rolePerms, dbNow, heldHint, resolves, permClock>>
       /\ UNCHANGED notPermVars

InviteUser(u, o, roleId) ==
    /\ membership[<<u, o>>] = None
    /\ dbNow < MaxDbTime
    /\ dbNow' = dbNow + 1
    /\ membership' = inviteUser(membership, o, u, roleId, dbNow + 1)
    /\ UNCHANGED <<rolePerms, permCache, permOrder, heldHint, resolves, resolved, permClock,
                 permStamp, resolving>>
    /\ UNCHANGED notPermVars

UpdateUser(u, o, roleId, status) ==
    /\ membership[<<u, o>>] # None
    /\ roleId # None \/ status # None
    /\ dbNow < MaxDbTime
    /\ dbNow' = dbNow + 1
    /\ membership' = updateUser(membership, o, u, roleId, status, dbNow + 1)
    /\ UNCHANGED <<rolePerms, permCache, permOrder, heldHint, resolves, resolved, permClock,
                 permStamp, resolving>>
    /\ UNCHANGED notPermVars

RemoveUser(u, o) ==
    /\ membership[<<u, o>>] # None
    /\ membership' = removeUser(membership, o, u)
    /\ UNCHANGED <<rolePerms, dbNow, permCache, permOrder, heldHint, resolves, resolved,
                 permClock, permStamp, resolving>>
    /\ UNCHANGED notPermVars

\* AdminRoleService.updateRolePermissions: the role's permissions become `slugs`.
UpdateRolePermissions(r, slugs) ==
    /\ rolePerms[r] # slugs
    /\ rolePerms' = [rolePerms EXCEPT ![r] = slugs]
    /\ UNCHANGED <<membership, dbNow, permCache, permOrder, heldHint, resolves, resolved,
                 permClock, permStamp, resolving>>
    /\ UNCHANGED notPermVars

\* The TTL of the oldest cache entry (EX PERMISSION_CACHE_TTL_SECONDS) runs
\* out, in the specifications that do not count the time.
ExpirePermissionKey ==
    /\ permOrder # << >>
    /\ permCache' = RedisDel(permCache, Head(permOrder))
    /\ permOrder' = Tail(permOrder)
    /\ permStamp' = RedisDel(permStamp, Head(permOrder))
    /\ UNCHANGED <<membership, rolePerms, dbNow, heldHint, resolves, resolved, permClock,
                 resolving>>
    /\ UNCHANGED notPermVars

\* Time passes: the keys whose TTL has run out are deleted.
RECURSIVE Kept(_, _)
Kept(order, keys) ==
    IF order = << >> THEN << >>
    ELSE IF Head(order) \in keys THEN <<Head(order)>> \o Kept(Tail(order), keys)
    ELSE Kept(Tail(order), keys)

PermTick ==
    LET live == {k \in DOMAIN permCache : ExpiresAt(permStamp[k].at) > permClock + 1}
    IN /\ permClock < MaxPermClock
       /\ permClock' = permClock + 1
       /\ permCache' = [k \in live |-> permCache[k]]
       /\ permStamp' = [k \in live |->
                          IF Held(k[1], k[2], permCache[k])
                          THEN [permStamp[k] EXCEPT !.trueAt = permClock + 1]
                          ELSE permStamp[k]]
       /\ permOrder' = Kept(permOrder, live)
       /\ resolving' = IF resolving.pc = "read"
                           /\ Held(resolving.user, resolving.org, resolving.payload[1])
                        THEN [resolving EXCEPT !.stamp.trueAt = permClock + 1]
                        ELSE resolving
       /\ UNCHANGED <<membership, rolePerms, dbNow, heldHint, resolves, resolved>>
       /\ UNCHANGED notPermVars

PermNext ==
    \/ \E o \in Orgs, h \in {None, heldHint}, adopt \in BOOLEAN :
           GetOrganizationPermissions(PermUser, o, h, adopt)
    \/ \E o \in Orgs, r \in {None} \cup {Some(x) : x \in Roles} :
           InviteUser(PermUser, o, r)
    \/ \E o \in Orgs, r \in {None} \cup {Some(y) : y \in {None} \cup {Some(x) : x \in Roles}},
          st \in {None} \cup {Some(x) : x \in Statuses} :
           UpdateUser(PermUser, o, r, st)
    \/ \E o \in Orgs : RemoveUser(PermUser, o)
    \/ \E r \in Roles, slugs \in {{PermX}, {PermX, PermY}} : UpdateRolePermissions(r, slugs)
    \/ ExpirePermissionKey

\* ------------------------------------------------------------------------
\* enforceSlidingWindowLimit (rate-limit/redis-window.ts)
\* ------------------------------------------------------------------------

RateKeys == {"k1"}
RateCallers == {"c1", "c2", "c3"}

\* A marker of a sorted set: the member `${now}:${Math.random()}` under its
\* score.  A sorted set holds a member once.
MarkerKeepsTime(now, random) == [score |-> now, member |-> <<now, 0>>]

Marker(now, random) == [score |-> now, member |-> <<now, random>>]

\* The markers a key holds at time t: none once its PEXPIRE deadline has passed.
Stored(log, deadline, t) == IF t >= deadline THEN {} ELSE log

ZRemKeepsAll(log, min, max) == log

ZRemBelow(log, min, max) == {m \in log : ~(min <= m.score /\ m.score < max)}

ZRemThroughNext(log, min, max) == {m \in log : ~(min <= m.score /\ m.score <= max + 1)}

\* zremrangebyscore(redisKey, min, max)
ZRemRangeByScore(log, min, max) == {m \in log : ~(min <= m.score /\ m.score <= max)}

\* zadd(redisKey, score, member): a member already there keeps one entry
ZAdd(log, marker) == {m \in log : m.member # marker.member} \cup {marker}

\* zcard(redisKey)
ZCard(log) == Cardinality(log)

TransactionWithoutTrim(log, now, windowMs, random) == ZAdd(log, Marker(now, random))

\* The MULTI/EXEC transaction of lines 32-38 on the markers of the key: what
\* it leaves stored.
Transaction(log, now, windowMs, random) ==
    ZAdd(ZRemRangeByScore(log, 0, now - windowMs), Marker(now, random))

\* Lines 48-50: Number(results[2]?.[1] ?? 0); the reply of ZCARD is None when
\* the command failed.
CurrentCount(raw) == IF raw = None THEN 0 ELSE raw[1]

\* Lines 52-67: TRUE when the call returns {remaining, reset, limit}, FALSE
\* when it throws 'Rate limit exceeded'.
Admits(currentCount, limit) == ~(currentCount > limit)

IdleCheck == [pc |-> "idle", key |-> "k1", now |-> 0]

NoCheck == [store |-> "none", admitted |-> FALSE, count |-> 0, inWindow |-> 0,
            sinceWindow |-> 0]

RateInit ==
    /\ clock = 0
    /\ rlLog = [k \in RateKeys |-> {}]
    /\ rlDeadline = [k \in RateKeys |-> 0]
    /\ nextRandom = 1
    /\ rl = [c \in RateCallers |-> IdleCheck]
    /\ rlCalls = 0
    /\ rlHist = << >>
    /\ rlLast = NoCheck

\* A millisecond passes.
Tick ==
    /\ clock < MaxClock
    /\ clock' = clock + 1
    /\ UNCHANGED <<rlLog, rlDeadline, nextRandom, rl, rlCalls, rlHist, rlLast>>
    /\ UNCHANGED notRateVars

\* Lines 28-38: the call reads Date.now() and sends the transaction.
RateSample(c, k) ==
    /\ rl[c].pc = "idle"
    /\ rlCalls < MaxCalls
    /\ rlCalls' = rlCalls + 1
    /\ rl' = [rl EXCEPT ![c] = [pc |-> "sent", key |-> k, now |-> clock]]
    /\ UNCHANGED <<clock, rlLog, rlDeadline, nextRandom, rlHist, rlLast>>
    /\ UNCHANGED notRateVars

\* The store runs the transaction as one step and the call ends (lines 40-67).
RateCommit(c) ==
    /\ rl[c].pc = "sent"
    /\ LET k == rl[c].key
           now == rl[c].now
           before == Stored(rlLog[k], rlDeadline[k], clock)
           after == Transaction(before, now, WindowMs, nextRandom)
           currentCount == CurrentCount(Some(ZCard(after)))
           all == before \cup {Marker(now, nextRandom)}
       IN /\ rlLog' = [rlLog EXCEPT ![k] = after]
          /\ rlDeadline' = [rlDeadline EXCEPT ![k] = clock + WindowMs]
          /\ rlHist' = Append(rlHist, [now |-> now, at |-> clock,
                                       admitted |-> Admits(currentCount, Limit)])
          /\ rlLast' = [store |-> "ok", admitted |-> Admits(currentCount, Limit),
                        count |-> currentCount,
                        inWindow |-> Cardinality({m \in all : now - WindowMs < m.score
                                                              /\ m.score <= now}),
                        sinceWindow |-> Cardinality({m \in all : now - WindowMs < m.score})]
    /\ nextRandom' = nextRandom + 1
    /\ rl' = [rl EXCEPT ![c] = IdleCheck]
    /\ UNCHANGED <<clock, rlCalls>>
    /\ UNCHANGED notRateVars

\* exec() resolves to null (line 40) or rejects: the transaction did not run,
\* and the call throws.
RateUnavailable(c, how) ==
    /\ rl[c].pc = "sent"
    /\ rl' = [rl EXCEPT ![c] = IdleCheck]
    /\ rlLast' = [store |-> how, admitted |-> FALSE, count |-> 0, inWindow |-> 0,
                  sinceWindow |-> 0]
    /\ UNCHANGED <<clock, rlLog, rlDeadline, nextRandom, rlCalls, rlHist>>
    /\ UNCHANGED notRateVars

\* exec() resolves, but the commands of the transaction failed in the store
\* (as with a key that holds another type): results[2] is [error, undefined],
\* nothing was stored, and the call goes on with lines 48-67.
RateCommandError(c) ==
    /\ rl[c].pc = "sent"
    /\ rl' = [rl EXCEPT ![c] = IdleCheck]
    /\ rlLast' = [store |-> "command-error",
                  admitted |-> Admits(CurrentCount(None), Limit),
                  count |-> CurrentCount(None), inWindow |-> 0, sinceWindow |-> 0]
    /\ UNCHANGED <<clock, rlLog, rlDeadline, nextRandom, rlCalls, rlHist>>
    /\ UNCHANGED notRateVars

RateNext ==
    \/ Tick
    \/ \E c \in RateCallers, k \in RateKeys : RateSample(c, k)
    \/ \E c \in RateCallers : RateCommit(c)
    \/ \E c \in RateCallers, how \in {"exec-null", "exec-throws"} : RateUnavailable(c, how)
    \/ \E c \in RateCallers : RateCommandError(c)

\* ------------------------------------------------------------------------
\* AuthorizationContext (auth/plugin.ts)
\* ------------------------------------------------------------------------

PlatformAdmin == "platform-admin"
GLOBAL_ADMIN_ROLES == {PlatformAdmin}

GlobalRoleSets == {{}, {"support"}, {PlatformAdmin}, {PlatformAdmin, "support"}}
AuthzOrgs == {"o1", "o2"}
EmptyString == << >>
RoleSlugs == {None, Some(RoleAdmin), Some(EmptyString)}
PermissionSets == {{}, {PermX}}

\* What getOrganizationPermissions answers for an organization claim during
\* hydration: it throws, returns null, or returns a permission set.
ResolutionOutcomes ==
    {[kind |-> "throws", roleSlug |-> None, permissions |-> {}],
     [kind |-> "null", roleSlug |-> None, permissions |-> {}]}
        \cup [kind : {"set"}, roleSlug : RoleSlugs, permissions : PermissionSets]

\* claims.organizations of a verified token, each claim with the answer its
\* resolution will get.
OrganizationClaims ==
    UNION {[orgs -> ResolutionOutcomes] : orgs \in SUBSET AuthzOrgs}

HydrateAbortsOnFailure(organizationClaims) ==
    IF \E o \in DOMAIN organizationClaims : organizationClaims[o].kind = "throws"
    THEN << >>
    ELSE [o \in {c \in DOMAIN organizationClaims : organizationClaims[c].kind = "set"} |->
            [roleSlug |-> organizationClaims[o].roleSlug,
             permissions |-> organizationClaims[o].permissions]]

\* hydrateOrganizations: the map of the claims whose resolution returned a
\* set; a resolution that throws is caught (and logged) and one that returns
\* null is skipped.
hydrateOrganizations(organizationClaims) ==
    [o \in {c \in DOMAIN organizationClaims : organizationClaims[c].kind = "set"} |->
        [roleSlug |-> organizationClaims[o].roleSlug,
         permissions |-> organizationClaims[o].permissions]]

ActiveContexts ==
    {None, Some([type |-> "singer", id |-> "s1"])}
        \cup {Some([type |-> "customer", id |-> o]) : o \in AuthzOrgs}

\* The messages of the errors tokenVerifier.verify throws
VerificationMessages == {"jwt expired", "signature verification failed"}

NoToken == [kind |-> "absent", message |-> "", roles |-> {}, organizations |-> << >>,
            activeContext |-> None]

\* What the onRequest hook finds in a request: no bearer token, a token that
\* tokenVerifier.verify rejects, or a token with verified claims.
RequestTokens ==
    {NoToken}
        \cup {[NoToken EXCEPT !.kind = "invalid", !.message = m] : m \in VerificationMessages}
        \cup [kind : {"verified"}, message : {""}, roles : GlobalRoleSets,
              organizations : OrganizationClaims, activeContext : ActiveContexts]

DefaultAuthenticationDetail == "Authentication is required to access this resource."

RequireUserForgets(user, error) ==
    IF user # None THEN [kind |-> "returns", detail |-> ""]
    ELSE [kind |-> "AuthenticationError", detail |-> DefaultAuthenticationDetail]

\* requireUser(): returns the user, or throws the authentication error with
\* the message of the retained error when there is one.
requireUser(user, error) ==
    IF user # None THEN [kind |-> "returns", detail |-> ""]
    ELSE IF error # None THEN [kind |-> "AuthenticationError", detail |-> error[1]]
    ELSE [kind |-> "AuthenticationError", detail |-> DefaultAuthenticationDetail]

hasGlobalRole(user, role) == IF user = None THEN FALSE ELSE role \in user[1].globalRoles

hasOrganizationPermission(user, organizationId, permission) ==
    IF user = None THEN FALSE
    ELSE IF organizationId \notin DOMAIN user[1].organizations THEN FALSE
    ELSE permission \in user[1].organizations[organizationId].permissions

\* requireOrganizationRole?: string | string[]
NoRoles == [kind |-> "undefined", roles |-> << >>]
RoleOptions ==
    {NoRoles}
        \cup {[kind |-> "string", roles |-> <<r>>] : r \in {EmptyString, RoleAdmin}}
        \cup {[kind |-> "array", roles |-> rs] :
                  rs \in {<< >>, <<RoleAdmin>>, <<EmptyString>>}}

\* OrganizationPermissionOptions
PermissionOptions ==
    [organizationId : {None, Some(""), Some("o1"), Some("o2")},
     useActiveContext : {None, Some(TRUE)},
     allowGlobalAdmin : {None, Some(TRUE), Some(FALSE)},
     requireOrganizationRole : RoleOptions]

hasAnyGlobalRole(user, roles) ==
    IF user = None THEN FALSE ELSE \E role \in roles : role \in user[1].globalRoles

resolveOrganizationId(user, options) ==
    IF options.organizationId # None /\ options.organizationId[1] # ""
    THEN options.organizationId
    ELSE IF /\ options.useActiveContext = Some(TRUE)
            /\ user.activeContext # None
            /\ user.activeContext[1].type = "customer"
         THEN Some(user.activeContext[1].id)
         ELSE None

\* The set of the required roles, or None
normalizeRoles(roles) ==
    CASE roles.kind = "undefined" -> None
      [] roles.kind = "string" ->
            IF roles.roles[1] = EmptyString THEN None ELSE Some({roles.roles[1]})
      [] roles.kind = "array" ->
            Some({roles.roles[i] : i \in 1..Len(roles.roles)})

\* Lines 112-121
HasRequiredRole(organization, requiredRoles) ==
    IF requiredRoles # None /\ Cardinality(requiredRoles[1]) > 0
    THEN (IF organization.roleSlug = None THEN EmptyString ELSE organization.roleSlug[1])
             \in requiredRoles[1]
    ELSE TRUE

\* Lines 95-128: the membership test, for an authenticated user.
CheckMembership(user, permission, options) ==
    LET organizationId == resolveOrganizationId(user, options)
    IN IF organizationId = None \/ organizationId[1] = ""
       THEN "AuthorizationError"
       ELSE IF organizationId[1] \notin DOMAIN user.organizations
       THEN "AuthorizationError"
       ELSE LET organization == user.organizations[organizationId[1]]
            IN IF ~HasRequiredRole(organization,
                                   normalizeRoles(options.requireOrganizationRole))
               THEN "AuthorizationError"
               ELSE IF permission \notin organization.permissions
               THEN "AuthorizationError"
               ELSE "returns"

AdminAlwaysPasses(user, permission, options) ==
    IF user = None THEN "AuthenticationError"
    ELSE IF hasAnyGlobalRole(user, GLOBAL_ADMIN_ROLES) THEN "returns"
    ELSE CheckMembership(user[1], permission, options)

\* How the call ends: "returns", or the error it throws.
requireOrganizationPermission(user, permission, options) ==
    IF user = None THEN "AuthenticationError"
    ELSE IF options.allowGlobalAdmin # Some(FALSE) /\ hasAnyGlobalRole(user, GLOBAL_ADMIN_ROLES)
    THEN "returns"
    ELSE CheckMembership(user[1], permission, options)

NoCall == [called |-> FALSE, permission |-> PermX,
           options |-> [organizationId |-> None, useActiveContext |-> None,
                        allowGlobalAdmin |-> None, requireOrganizationRole |-> NoRoles],
           outcome |-> "none", detail |-> ""]

NoProbe == [called |-> FALSE, hasGlobalRole |-> FALSE, hasAnyGlobalRole |-> FALSE,
            hasOrganizationPermission |-> FALSE,
            requireUser |-> [kind |-> "none", detail |-> ""]]

NoRequest == [NoToken EXCEPT !.kind = "none"]

AuthzInit ==
    /\ authUser = None
    /\ authError = None
    /\ authRequest = NoRequest
    /\ authzCall = NoCall
    /\ authzProbe = NoProbe

\* The onRequest hook builds the context of a request, once, before its
\* handler runs: AuthorizationContext(null, null) without a token,
\* AuthorizationContext(user, null) from verified claims and the hydrated
\* organizations, AuthorizationContext(null, error) when the try block throws.
Authenticate(token) ==
    /\ authRequest.kind = "none"
    /\ ~authzCall.called
    /\ ~authzProbe.called
    /\ authRequest' = token
    /\ authUser' = IF token.kind = "verified"
                   THEN Some([globalRoles |-> token.roles,
                              organizations |-> hydrateOrganizations(token.organizations),
                              activeContext |-> token.activeContext])
                   ELSE None
    /\ authError' = IF token.kind = "invalid" THEN Some(token.message) ELSE None
    /\ UNCHANGED <<authzCall, authzProbe>>
    /\ UNCHANGED notAuthzVars

\* The handler asks the context: hasGlobalRole, hasAnyGlobalRole,
\* hasOrganizationPermission and requireUser.
ProbeContext(role, roles, organizationId, permission) ==
    /\ ~authzCall.called
    /\ ~authzProbe.called
    /\ authzProbe' = [called |-> TRUE,
                      hasGlobalRole |-> hasGlobalRole(authUser, role),
                      hasAnyGlobalRole |-> hasAnyGlobalRole(authUser, roles),
                      hasOrganizationPermission |->
                          hasOrganizationPermission(authUser, organizationId, permission),
                      requireUser |-> requireUser(authUser, authError)]
    /\ UNCHANGED <<authUser, authError, authRequest, authzCall>>
    /\ UNCHANGED notAuthzVars

\* The handler of the request checks a permission.
RequireOrganizationPermission(permission, options) ==
    /\ ~authzCall.called
    /\ ~authzProbe.called
    /\ authzCall' = [called |-> TRUE, permission |-> permission, options |-> options,
                     outcome |-> requireOrganizationPermission(authUser, permission, options),
                     detail |-> IF authUser = None
                                THEN requireUser(authUser, authError).detail ELSE ""]
    /\ UNCHANGED <<authUser, authError, authRequest, authzProbe>>
    /\ UNCHANGED notAuthzVars

AuthzNext ==
    \/ \E token \in RequestTokens : Authenticate(token)
    \/ \E role \in {PlatformAdmin, "support"}, roles \in {GLOBAL_ADMIN_ROLES, {"support"}},
          organizationId \in AuthzOrgs, permission \in Perms :
           ProbeContext(role, roles, organizationId, permission)
    \/ \E permission \in Perms, options \in PermissionOptions :
           RequireOrganizationPermission(permission, options)

\* ------------------------------------------------------------------------
\* TokenService (auth/token-service.ts)
\* ------------------------------------------------------------------------

\* The organizations in the order of localeCompare
OrgOrder == <<"o1", "o2">>

SingerIds == {"s1", "s2"}

\* The activeContext argument of createSession and createAccessToken
Overrides ==
    {None} \cup {Some([type |-> "customer", id |-> o]) : o \in CustomerIds}
           \cup {Some([type |-> "singer", id |-> i]) : i \in SingerIds}
           \cup {Some([type |-> "venue", id |-> "o1"])}

\* getOrganizationPermissions(userId, organization) as a function of the
\* cache: the permission set returned and the cache it leaves.
ResolvePermissions(cache, order, stamps, u, o, hint) ==
    LET cached == RedisGet(cache, buildCacheKey(u, o, hint))
        m == FindMembership(u, o)
        payload == BuildPayload(o, m[1])
    IN IF cached # None
       THEN [result |-> cached, cache |-> cache, order |-> order, stamps |-> stamps]
       ELSE IF m = None
       THEN [result |-> None, cache |-> cache, order |-> order, stamps |-> stamps]
       ELSE [result |-> Some(payload),
             cache |-> CacheAfterMiss(cache, u, o, hint, payload),
             order |-> OrderAfterMiss(order, u, o, hint, payload),
             stamps |-> StampAfterMiss(stamps, u, o, hint, payload,
                                       ReadStamp(u, o, payload, permClock))]

\* The claim buildOrganizationClaims makes for one membership: its
\* permissionsHash is the version of the permission set that
\* getOrganizationPermissions returns for a claim without a hash.  `built`
\* holds the claims made so far and the cache they left.
WithClaim(built, u, o) ==
    LET m == FindActiveMembership(u, o)
        r == ResolvePermissions(built.cache, built.order, built.stamps, u, o, None)
    IN IF m = None THEN built
       ELSE [claims |-> Append(built.claims,
                               [id |-> o,
                                roles |-> IF m[1].role # None /\ m[1].role[1] # << >>
                                          THEN <<m[1].role[1]>> ELSE << >>,
                                permissionsHash |-> IF r.result # None
                                                    THEN Some(r.result[1].version)
                                                    ELSE None]),
             cache |-> r.cache, order |-> r.order, stamps |-> r.stamps]

\* buildOrganizationClaims(userId, user.organizationUsers): a claim for each
\* active membership, sorted by organization id.
RECURSIVE buildOrganizationClaims(_, _, _)
buildOrganizationClaims(built, u, orgs) ==
    IF orgs = << >> THEN built
    ELSE buildOrganizationClaims(WithClaim(built, u, Head(orgs)), u, Tail(orgs))

\* validateActiveContext: TRUE when it returns, FALSE when it throws.
validateActiveContext(u, context, singerProfileId, organizations) ==
    CASE context.type = "customer" ->
             \/ \E i \in 1..Len(organizations) : organizations[i].id = context.id
             \/ customerProfile[u] = Some(context.id)
      [] context.type = "singer" -> singerProfileId = Some(context.id)
      [] OTHER -> FALSE

DefaultPrefersMembership(ownedCustomerId, singerProfileId, organizations) ==
    IF Len(organizations) > 0
    THEN Some([type |-> "customer", id |-> organizations[1].id])
    ELSE IF ownedCustomerId # None
    THEN Some([type |-> "customer", id |-> ownedCustomerId[1]])
    ELSE IF singerProfileId # None THEN Some([type |-> "singer", id |-> singerProfileId[1]])
    ELSE None

\* The context a user gets without an override.
DefaultContext(ownedCustomerId, singerProfileId, organizations) ==
    IF ownedCustomerId # None THEN Some([type |-> "customer", id |-> ownedCustomerId[1]])
    ELSE IF Len(organizations) > 0
    THEN Some([type |-> "customer", id |-> organizations[1].id])
    ELSE IF singerProfileId # None THEN Some([type |-> "singer", id |-> singerProfileId[1]])
    ELSE None

ResolveFallsBack(u, override, ownedCustomerId, singerProfileId, organizations) ==
    IF override # None
           /\ validateActiveContext(u, override[1], singerProfileId, organizations)
    THEN [throws |-> FALSE, context |-> override]
    ELSE [throws |-> FALSE,
          context |-> DefaultContext(ownedCustomerId, singerProfileId, organizations)]

resolveActiveContext(u, override, ownedCustomerId, singerProfileId, organizations) ==
    IF override # None
    THEN IF validateActiveContext(u, override[1], singerProfileId, organizations)
         THEN [throws |-> FALSE, context |-> override]
         ELSE [throws |-> TRUE, context |-> None]
    ELSE [throws |-> FALSE,
          context |-> DefaultContext(ownedCustomerId, singerProfileId, organizations)]

\* buildAccessTokenClaims(userId, activeContextOverride): the claims, or the
\* error, and the permission cache the call leaves.
buildAccessTokenClaims(u, override) ==
    LET built == buildOrganizationClaims([claims |-> << >>, cache |-> permCache,
                                          order |-> permOrder, stamps |-> permStamp],
                                         u, OrgOrder)
        active == resolveActiveContext(u, override, customerProfile[u], singerProfile[u],
                                       built.claims)
    IN [throws |-> active.throws,
        organizations |-> IF active.throws THEN << >> ELSE built.claims,
        activeContext |-> active.context,
        cache |-> built.cache,
        order |-> built.order,
        stamps |-> built.stamps]

NoMint == [op |-> "none", outcome |-> "none", override |-> None, signed |-> FALSE,
           refreshToken |-> None, organizations |-> << >>, activeContext |-> None,
           member |-> {}, owned |-> None, singer |-> None, versions |-> << >>]

TokenInit ==
    /\ customerProfile = [u \in Users |-> None]
    /\ singerProfile = [u \in Users |-> None]
    /\ mint = NoMint

\* What the relational store holds when a mint is made: the organizations of
\* the user's active memberships, the profiles the user owns, and the version
\* of each active membership's permission set.
StoreAtMint(u) ==
    [member |-> {o \in CustomerIds : FindActiveMembership(u, o) # None},
     owned |-> customerProfile[u],
     singer |-> singerProfile[u],
     versions |-> [o \in {x \in CustomerIds : FindActiveMembership(u, x) # None} |->
                     BuildPayload(o, FindMembership(u, o)[1]).version]]

Minted(op, override, built, signs, issues, refreshToken, u) ==
    LET store == StoreAtMint(u)
    IN [op |-> op,
        outcome |-> IF built.throws \/ ~signs \/ ~issues THEN "throws" ELSE "claims",
        override |-> override,
        signed |-> ~built.throws /\ signs,
        refreshToken |-> refreshToken,
        organizations |-> built.organizations,
        activeContext |-> built.activeContext,
        member |-> store.member,
        owned |-> store.owned,
        singer |-> store.singer,
        versions |-> store.versions]

\* createAccessToken(userId, activeContext)
CreateAccessToken(u, override) ==
    LET built == buildAccessTokenClaims(u, override)
    IN /\ mint.op = "none"
       /\ permCache' = built.cache
       /\ permOrder' = built.order
       /\ permStamp' = built.stamps
       /\ mint' = Minted("createAccessToken", override, built, TRUE, TRUE, None, u)
       /\ UNCHANGED <<membership, rolePerms, dbNow, heldHint, resolves, resolved, permClock,
                    resolving>>
       /\ UNCHANGED <<customerProfile, singerProfile>>
       /\ UNCHANGED refreshVars
       /\ UNCHANGED notTokenVars

\* createSession(userId, activeContext): the claims are built first; then
\* signJwt and refreshTokenStore.issue are both started and both awaited.
\* `signs` and `issues` tell whether the signature and the write of issue
\* succeed; the call throws when either fails, the other having run to its
\* end. mint.refreshToken is the token the call wrote to the store.
CreateSession(u, override, signs, issues) ==
    LET built == buildAccessTokenClaims(u, override)
    IN /\ mint.op = "none"
       /\ nextTokenId <= MaxTokens
       /\ built.throws => (signs /\ issues)
       /\ permCache' = built.cache
       /\ permOrder' = built.order
       /\ permStamp' = built.stamps
       /\ \E s \in Secrets :
            LET generated == generateToken(nextTokenId, s)
            IN /\ mint' = Minted("createSession", override, built, signs, issues,
                                 IF built.throws \/ ~issues
                                 THEN None ELSE Some(generated.token), u)
               /\ IF built.throws \/ ~issues
                  THEN UNCHANGED <<refreshStore, nextTokenId, issuedTokens>>
                  ELSE
                    /\ refreshStore' = issue(refreshStore, u, generated)
                    /\ issuedTokens' = issuedTokens \cup
                           {[user |-> u, token |-> generated.token]}
                    /\ nextTokenId' = nextTokenId + 1
       /\ UNCHANGED <<membership, rolePerms, dbNow, heldHint, resolves, resolved, permClock,
                    resolving>>
       /\ UNCHANGED <<customerProfile, singerProfile>>
       /\ UNCHANGED <<rot, rotAnswer, rotHist, deadTokens, so, storeCall>>
       /\ UNCHANGED notTokenVars

\* register, account type customer: the user's customer profile is created
\* with the user's active membership in it, role customer-admin, before the
\* first session of the user.
CreateCustomerProfile(u, id) ==
    /\ customerProfile[u] = None
    /\ membership[<<u, id>>] = None
    /\ mint.op = "none"
    /\ dbNow < MaxDbTime
    /\ dbNow' = dbNow + 1
    /\ customerProfile' = [customerProfile EXCEPT ![u] = Some(id)]
    /\ membership' = [membership EXCEPT ![<<u, id>>] =
                         Some([status |-> "active", role |-> Some(RoleAdmin),
                               direct |-> {}, updatedAt |-> dbNow + 1])]
    /\ UNCHANGED <<singerProfile, mint>>
    /\ UNCHANGED <<rolePerms, permCache, permOrder, heldHint, resolves, resolved, permClock,
                   permStamp, resolving>>
    /\ UNCHANGED refreshVars
    /\ UNCHANGED notTokenVars

\* register, account type singer: the user's singer profile is created,
\* before the first session of the user.
CreateSingerProfile(u, id) ==
    /\ singerProfile[u] = None
    /\ mint.op = "none"
    /\ singerProfile' = [singerProfile EXCEPT ![u] = Some(id)]
    /\ UNCHANGED <<customerProfile, mint>>
    /\ UNCHANGED <<refreshVars, permVars>>
    /\ UNCHANGED notTokenVars

TokenNext ==
    \/ \E override \in Overrides : CreateAccessToken(PermUser, override)
    \/ \E override \in Overrides, signs \in BOOLEAN, issues \in BOOLEAN :
           CreateSession(PermUser, override, signs, issues)
    \/ \E id \in {"o2"} : CreateCustomerProfile(PermUser, id)
    \/ \E id \in {"s1"} : CreateSingerProfile(PermUser, id)
    \/ \E o \in Orgs : GetOrganizationPermissions(PermUser, o, None, FALSE)
    \/ \E o \in {"o2"}, r \in {None} : InviteUser(PermUser, o, r)
    \/ \E o \in CustomerIds, st \in {Some("suspended"), Some("active")} :
           UpdateUser(PermUser, o, None, st)
    \/ ExpirePermissionKey

\* ------------------------------------------------------------------------
\* The request pipeline (server.ts buildServer, routes/auth/index.ts)
\* ------------------------------------------------------------------------

HookOrderAuthFirst == <<"authentication", "rate-limit">>

\* The onRequest hooks in the order buildServer registers them:
\* registerRateLimitPlugin, then registerAuthenticationPlugin.
HookOrder == <<"rate-limit", "authentication">>

Routes == {"register", "signin", "signout", "password-forgot", "profile", "context"}

\* What a route does, in order, each step ending the request when it throws.
RouteSteps(route) ==
    CASE route = "register" -> <<"ip-limit", "parse-body", "logic">>
      [] route = "signin" -> <<"ip-limit", "parse-body", "credentials">>
      [] route = "password-forgot" -> <<"ip-limit", "parse-body", "logic">>
      [] route = "signout" -> <<"authenticate", "user-limit", "parse-body", "logic">>
      [] route = "profile" -> <<"authenticate", "user-limit", "logic">>
      [] route = "context" -> <<"authenticate", "user-limit", "parse-body", "logic">>

\* The bearer token of a request
PipeTokens == {"absent", "invalid", "valid"}

IdlePipe == [pc |-> "idle", route |-> "signin", token |-> "absent", hook |-> 1,
             step |-> 1, status |-> 0, trace |-> << >>]

PipeInit == pipe = IdlePipe

\* The place after the hook or step that just ended without throwing.
AfterHook(p) ==
    IF p.hook < Len(HookOrder)
    THEN [p EXCEPT !.hook = p.hook + 1, !.pc = HookOrder[p.hook + 1]]
    ELSE [p EXCEPT !.pc = RouteSteps(p.route)[1], !.step = 1]

AfterStep(p) ==
    IF p.step < Len(RouteSteps(p.route))
    THEN [p EXCEPT !.step = p.step + 1, !.pc = RouteSteps(p.route)[p.step + 1]]
    ELSE [p EXCEPT !.pc = "replied", !.status = 200]

Replied(p, status) == [p EXCEPT !.pc = "replied", !.status = status]

Did(p, event) == [p EXCEPT !.trace = Append(p.trace, event)]

ReceiveRequest(route, token) ==
    /\ pipe.pc = "idle"
    /\ pipe' = [IdlePipe EXCEPT !.pc = HookOrder[1], !.route = route, !.token = token]
    /\ UNCHANGED notPipeVars

\* The hook of registerRateLimitPlugin: the limit of the client.
RateLimitHook(admitted) ==
    /\ pipe.pc = "rate-limit"
    /\ pipe' = IF admitted THEN AfterHook(Did(pipe, "global-rate-limit"))
               ELSE Replied(Did(pipe, "global-rate-limit"), 429)
    /\ UNCHANGED notPipeVars

\* The hook of registerAuthenticationPlugin, to the end of
\* tokenVerifier.verify: without a token nothing is verified.
AuthHookVerify ==
    /\ pipe.pc = "authentication"
    /\ pipe' = CASE pipe.token = "absent" -> AfterHook(pipe)
                 [] pipe.token = "invalid" -> AfterHook(Did(pipe, "verify-token"))
                 [] pipe.token = "valid" -> [Did(pipe, "verify-token") EXCEPT !.pc = "hydrate"]
    /\ UNCHANGED notPipeVars

\* The hook of registerAuthenticationPlugin: hydrateOrganizations.
AuthHookHydrate ==
    /\ pipe.pc = "hydrate"
    /\ pipe' = AfterHook(Did(pipe, "hydrate-permissions"))
    /\ UNCHANGED notPipeVars

\* app.authenticate(request, reply)
RouteAuthenticate ==
    /\ pipe.pc = "authenticate"
    /\ pipe' = IF pipe.token = "valid" THEN AfterStep(pipe) ELSE Replied(pipe, 401)
    /\ UNCHANGED notPipeVars

\* enforceIpRateLimit / enforceUserRateLimit of the route
RouteRateLimit(admitted) ==
    /\ pipe.pc \in {"ip-limit", "user-limit"}
    /\ pipe' = IF admitted THEN AfterStep(Did(pipe, "route-rate-limit"))
               ELSE Replied(Did(pipe, "route-rate-limit"), 429)
    /\ UNCHANGED notPipeVars

\* parseBody(schema, request.body)
RouteParseBody(valid) ==
    /\ pipe.pc = "parse-body"
    /\ pipe' = IF valid THEN AfterStep(pipe) ELSE Replied(pipe, 400)
    /\ UNCHANGED notPipeVars

\* authService.signIn: the credential check
RouteCredentials(valid) ==
    /\ pipe.pc = "credentials"
    /\ pipe' = IF valid THEN AfterStep(Did(pipe, "credential-check"))
               ELSE Replied(Did(pipe, "credential-check"), 401)
    /\ UNCHANGED notPipeVars

\* The service call of the route: register, signOut, requestPasswordReset,
\* getProfile, switchContext.
RouteLogic ==
    /\ pipe.pc = "logic"
    /\ pipe' = AfterStep(Did(pipe, "handler"))
    /\ UNCHANGED notPipeVars

PipeNext ==
    \/ \E route \in Routes, token \in PipeTokens : ReceiveRequest(route, token)
    \/ \E admitted \in BOOLEAN : RateLimitHook(admitted)
    \/ AuthHookVerify
    \/ AuthHookHydrate
    \/ RouteAuthenticate
    \/ \E admitted \in BOOLEAN : RouteRateLimit(admitted)
    \/ \E valid \in BOOLEAN : RouteParseBody(valid)
    \/ \E valid \in BOOLEAN : RouteCredentials(valid)
    \/ RouteLogic

\* ------------------------------------------------------------------------
\* Calls of computePermissionCacheVersion (lib/prisma.ts)
\* ------------------------------------------------------------------------

RoleWithBar == <<97, 124, 120>>     \* a role slug, "a|x"
PermWithBar == <<120, 124, 121>>    \* a permission slug, "x|y"

\* The arguments of a call: a role slug or null, an iterable of permission
\* slugs, in any order and with repetitions, and a Date or null.
VersionTriples ==
    [roleSlug : {None, Some(EmptyString), Some(RoleAdmin), Some(RoleWithBar)},
     permissions : UNION {[1..n -> {PermX, PermY, PermWithBar}] : n \in 0..MaxSlugs},
     updatedAt : {None, Some(0), Some(1)}]

\* new Set(Array.from(permissions))
Elements(permissions) == {permissions[i] : i \in DOMAIN permissions}

VersionInit ==
    versionCheck = [done |-> FALSE, first |-> None, second |-> None, tokens |-> << >>]

\* computePermissionCacheVersion is called with a triple and with another.
ComputeVersions(first, second) ==
    /\ ~versionCheck.done
    /\ versionCheck' =
           [done |-> TRUE, first |-> Some(first), second |-> Some(second),
            tokens |-> <<computePermissionCacheVersion(
                             first.roleSlug, Elements(first.permissions), first.updatedAt),
                         computePermissionCacheVersion(
                             second.roleSlug, Elements(second.permissions),
                             second.updatedAt)>>]
    /\ UNCHANGED notVersionVars

VersionNext ==
    \E first \in VersionTriples, second \in VersionTriples : ComputeVersions(first, second)

\* ------------------------------------------------------------------------
\* SingerRequestService.createRequest (singer/profile-service.ts)
\* ------------------------------------------------------------------------

VenueIds == {"v1"}

SingerKey(singerProfileId) == <<"singer:requests", singerProfileId>>
VenueKey(venueId) == <<"venue:requests", venueId>>

RequestKeys == {SingerKey(s) : s \in SingerIds} \cup {VenueKey(v) : v \in VenueIds}

\* options.perSingerLimit, perVenueLimit and the two windows
perSingerLimit == Limit
perVenueLimit == Limit + 1
perSingerWindowMs == WindowMs
perVenueWindowMs == WindowMs

EitherResolves(singerAdmitted, venueAdmitted) == singerAdmitted \/ venueAdmitted

\* await Promise.all([enforceSingerRateLimit, enforceVenueRateLimit]) returns
\* when both checks return and throws when one throws.
BothResolve(singerAdmitted, venueAdmitted) == singerAdmitted /\ venueAdmitted

IdleRequest == [pc |-> "idle", singer |-> "s1", venue |-> "v1", now |-> 0]

NoSingerRequest == [outcome |-> "none", singer |-> "s1", venue |-> "v1",
              singerAdmitted |-> FALSE, venueAdmitted |-> FALSE,
              singerMarker |-> Marker(0, 0), venueMarker |-> Marker(0, 0),
              singerBefore |-> {}, venueBefore |-> {},
              db |-> [requests |-> 0, history |-> 0, jobs |-> 0]]

RequestInit ==
    /\ rqLog = [k \in RequestKeys |-> {}]
    /\ rqDeadline = [k \in RequestKeys |-> 0]
    /\ rqDb = [requests |-> 0, history |-> 0, jobs |-> 0]
    /\ rq = IdleRequest
    /\ rqCalls = 0
    /\ rqLast = NoSingerRequest

\* Lines 210-225: artist and title are validated; then both checks are
\* started, each reading Date.now() and sending its transaction.
CreateRequestStart(singerProfileId, venueId, valid) ==
    /\ rq.pc = "idle"
    /\ rqCalls < MaxRequests
    /\ rqCalls' = rqCalls + 1
    /\ rq' = IF valid
             THEN [pc |-> "limits", singer |-> singerProfileId, venue |-> venueId,
                   now |-> clock]
             ELSE rq
    /\ UNCHANGED <<rqLog, rqDeadline, rqDb, rqLast>>
    /\ UNCHANGED rateVars
    /\ UNCHANGED notRequestVars

\* The store runs the two transactions, each on its key, and Promise.all
\* settles (lines 222-225 and 325-337).
CreateRequestLimits ==
    /\ rq.pc = "limits"
    /\ LET sk == SingerKey(rq.singer)
           vk == VenueKey(rq.venue)
           singerBefore == Stored(rqLog[sk], rqDeadline[sk], clock)
           venueBefore == Stored(rqLog[vk], rqDeadline[vk], clock)
           singerAfter == Transaction(singerBefore, rq.now, perSingerWindowMs, nextRandom)
           venueAfter == Transaction(venueBefore, rq.now, perVenueWindowMs, nextRandom + 1)
           singerAdmitted == Admits(CurrentCount(Some(ZCard(singerAfter))), perSingerLimit)
           venueAdmitted == Admits(CurrentCount(Some(ZCard(venueAfter))), perVenueLimit)
           resolved2 == BothResolve(singerAdmitted, venueAdmitted)
       IN /\ rqLog' = [rqLog EXCEPT ![sk] = singerAfter, ![vk] = venueAfter]
          /\ rqDeadline' = [rqDeadline EXCEPT ![sk] = clock + perSingerWindowMs,
                                              ![vk] = clock + perVenueWindowMs]
          /\ rq' = IF resolved2 THEN [rq EXCEPT !.pc = "transaction"] ELSE IdleRequest
          /\ rqLast' = [outcome |-> IF resolved2 THEN "checked" ELSE "limited",
                        singer |-> rq.singer, venue |-> rq.venue,
                        singerAdmitted |-> singerAdmitted,
                        venueAdmitted |-> venueAdmitted,
                        singerMarker |-> Marker(rq.now, nextRandom),
                        venueMarker |-> Marker(rq.now, nextRandom + 1),
                        singerBefore |-> singerBefore,
                        venueBefore |-> venueBefore,
                        db |-> rqDb]
    /\ nextRandom' = nextRandom + 2
    /\ UNCHANGED <<rqDb, rqCalls>>
    /\ UNCHANGED <<clock, rlLog, rlDeadline, rl, rlCalls, rlHist, rlLast>>
    /\ UNCHANGED notRequestVars

\* Lines 229-296: prisma.$transaction; it throws, writing nothing, when the
\* singer profile or the venue is not found, the profile is not the user's or
\* the venue does not accept requests; else it creates the request row and
\* the history row.
CreateRequestTransaction(accepted) ==
    /\ rq.pc = "transaction"
    /\ rqDb' = IF accepted
               THEN [rqDb EXCEPT !.requests = @ + 1, !.history = @ + 1]
               ELSE rqDb
    /\ rq' = IF accepted THEN [rq EXCEPT !.pc = "enqueue"] ELSE IdleRequest
    /\ rqLast' = [rqLast EXCEPT !.outcome = IF accepted THEN "written" ELSE "refused"]
    /\ UNCHANGED <<rqLog, rqDeadline, rqCalls>>
    /\ UNCHANGED rateVars
    /\ UNCHANGED notRequestVars

\* Lines 298-322: the notification job is enqueued and the call returns.
CreateRequestEnqueue ==
    /\ rq.pc = "enqueue"
    /\ rqDb' = [rqDb EXCEPT !.jobs = @ + 1]
    /\ rq' = IdleRequest
    /\ rqLast' = [rqLast EXCEPT !.outcome = "created"]
    /\ UNCHANGED <<rqLog, rqDeadline, rqCalls>>
    /\ UNCHANGED rateVars
    /\ UNCHANGED notRequestVars

RequestNext ==
    \/ Tick
    \/ \E s \in SingerIds, v \in VenueIds, valid \in BOOLEAN : CreateRequestStart(s, v, valid)
    \/ CreateRequestLimits
    \/ \E accepted \in BOOLEAN : CreateRequestTransaction(accepted)
    \/ CreateRequestEnqueue

vars == <<refreshVars, permVars, rateVars, authzVars, pipeVars, tokenVars, versionVars,
          requestVars>>

Init ==
    /\ RefreshInit /\ PermInit /\ RateInit /\ AuthzInit /\ PipeInit /\ TokenInit
    /\ VersionInit /\ RequestInit

SpecRefresh == Init /\ [][RefreshNext]_vars

\* The sessions of the users: issue, verify, sign-out and expiry of refresh
\* tokens, and the calls that read a store that is down.
SessionNext ==
    \/ \E u \in Users : Issue(u)
    \/ \E u \in Users, tok \in VerifyTokens, up \in BOOLEAN : Verify(u, tok, up)
    \/ \E p \in {"r1"}, u \in Users, tok \in PresentedTokens : RotateVerifyThrows(p, u, tok)
    \/ \E u \in Users, tok \in VerifyTokens, up \in BOOLEAN : SignOutVerify(u, tok, up)
    \/ SignOutRevoke
    \/ ExpireRefreshToken

SpecSession == Init /\ [][SessionNext]_vars

SpecPerm == Init /\ [][PermNext]_vars

SpecRate == Init /\ [][RateNext]_vars

SpecAuthz == Init /\ [][AuthzNext]_vars

SpecPipe == Init /\ [][PipeNext]_vars

SpecToken == Init /\ [][TokenNext]_vars

\* The permission cache over time: resolutions and membership changes as the
\* TTLs of the cached entries run.
StaleNext ==
    \/ \E o \in Orgs, h \in {None, heldHint}, adopt \in BOOLEAN :
           GetOrganizationPermissions(PermUser, o, h, adopt)
    \/ \E o \in Orgs : ResolveRead(PermUser, o, None)
    \/ ResolveWrite
    \/ \E o \in Orgs, r \in {Some(None), Some(Some(RoleAdmin))} :
           UpdateUser(PermUser, o, r, None)
    \/ PermTick

SpecStale == Init /\ [][StaleNext]_vars

SpecVersion == Init /\ [][VersionNext]_vars

SpecRequest == Init /\ [][RequestNext]_vars

\* ------------------------------------------------------------------------
\* Claims on the refresh-token store
\* ------------------------------------------------------------------------

\* C1: once rotate(userId, token) has returned a new token, verify(userId,
\* token) with the old token returns null, and a rotate(userId, token) begun
\* after that return is answered null.
RotationIsSingleUse ==
    /\ \A h \in rotHist : verify(refreshStore, h.user, h.token) = None
    /\ \A p \in RotateCallers : ~rot[p].late
    /\ rotAnswer.late => rotAnswer.result = None

\* C1 witness: a rotation has returned a new token, which verifies, and a
\* later rotate of the old token has been answered null.
RotationIsSingleUseWitness ==
    \E h \in rotHist :
        /\ verify(refreshStore, h.user, h.new) # None
        /\ rotAnswer.late

\* C2: of the rotate calls that present one valid token at most one returns a
\* new token: a refresh token never has two successors.
RotationLinearizable ==
    \A a \in rotHist, b \in rotHist :
        (a.user = b.user /\ a.token = b.token) => a.new = b.new

\* ------------------------------------------------------------------------
\* Claims on the permission resolver
\* ------------------------------------------------------------------------

\* C3: a getOrganizationPermissions call whose version hint differs from the
\* membership's current version misses the cache and returns the current
\* permission set.
StaleHintNeverStale ==
    resolved.stale => (~resolved.hit /\ resolved.fresh)

\* C4: getOrganizationPermissions returns null whenever the user has no
\* membership with status active in the organization.
NullWithoutActiveMembership ==
    ~resolved.active => resolved.null

\* C11: verify(userId, token) answers with a tokenId only for a token that
\* issue(userId) returned to that user and that was neither revoked nor
\* expired; the tokenId of a live token with another secret, without a secret
\* or under another user is answered null.
SecretPossessionRequired ==
    /\ \A u \in Users, tok \in VerifyTokens :
           verify(refreshStore, u, tok) # None
               => /\ [user |-> u, token |-> tok] \in issuedTokens
                  /\ <<u, tok[1]>> \notin deadTokens
    /\ (storeCall.op = "verify" /\ storeCall.outcome = "tokenId")
           => storeCall.input = "live"

\* C11 witness: verify was called with the tokenId of a live token of the
\* user and another secret, and answered null.
SecretPossessionRequiredWitness ==
    /\ storeCall.op = "verify"
    /\ storeCall.input = "wrong-secret"
    /\ ~storeCall.down
    /\ storeCall.outcome = "null"

\* C12: a rotate(userId, token) whose verification fails is answered null and
\* changes nothing in the store: no key is set and none is deleted.
FailedRotateChangesNothing ==
    [][\A p \in RotateCallers, u \in Users, tok \in PresentedTokens :
           (RotateVerify(p, u, tok) /\ verify(refreshStore, u, tok) = None)
               => /\ refreshStore' = refreshStore
                  /\ nextTokenId' = nextTokenId
                  /\ rotAnswer'.outcome = "null"]_vars

\* C12 witness: a rotate was answered null for a token that had not been
\* rotated before, while the store held tokens.
FailedRotateChangesNothingWitness ==
    /\ rotAnswer.outcome = "null"
    /\ ~rotAnswer.late
    /\ DOMAIN refreshStore # {}

\* C13: verify and signOut throw exactly when they read a store that is down,
\* and a rotate that reads a store that is down throws; a token that does not
\* parse, an absent key and a digest mismatch are answered null (signOut
\* returns) without an error.
InconclusiveIsNotFailed ==
    /\ storeCall.op \in {"verify", "signOut"}
           => /\ storeCall.outcome = "throws"
                    <=> (storeCall.down /\ storeCall.input # "malformed")
              /\ (storeCall.op = "verify" /\ ~storeCall.down /\ storeCall.input # "live")
                    => storeCall.outcome = "null"
    /\ rotAnswer.outcome \in {"none", "throws"}

\* C13 witness: verify read a store that was down for a live token of the
\* user and threw, and a rotate threw.
InconclusiveIsNotFailedWitness ==
    /\ storeCall.op = "verify"
    /\ storeCall.input = "live"
    /\ storeCall.down
    /\ storeCall.outcome = "throws"
    /\ rotAnswer.outcome = "throws"

\* C18: once signOut(userId, refreshToken) with a valid token has returned,
\* verify(userId, t) is null for every token t issued to the user before.
SignOutRevokesAll ==
    (storeCall.op = "signOut" /\ storeCall.input = "live" /\ storeCall.outcome = "returns")
        => \A t \in storeCall.before : verify(refreshStore, storeCall.user, t) = None

\* ------------------------------------------------------------------------
\* The sliding-window rate limiter
\* ------------------------------------------------------------------------

\* The checks answered so far all ran their transaction inside one window
\* that began with the empty log: the last commit is less than WindowMs after
\* the earliest sampled time.
OneWindow ==
    /\ rlHist # << >>
    /\ \A i, j \in 1..Len(rlHist) : rlHist[j].at < rlHist[i].now + WindowMs

AdmittedCalls == {i \in 1..Len(rlHist) : rlHist[i].admitted}

Min(a, b) == IF a <= b THEN a ELSE b

\* C5 (as stated): a check whose transaction ran is admitted exactly when the
\* markers of its key with a timestamp in (now - WindowMs, now], its own
\* included, number at most Limit.
AdmittedIffWindowCount ==
    rlLast.store = "ok" => (rlLast.admitted <=> rlLast.inWindow <= Limit)

\* C5 (amended): a check whose transaction ran is admitted exactly when the
\* markers stored under its key with a timestamp greater than now - WindowMs,
\* its own included, number at most Limit; a marker exactly WindowMs old is
\* not among them, whereas a marker stamped later than now is.
AdmittedIffStoredCount ==
    rlLast.store = "ok" =>
        /\ rlLast.admitted <=> rlLast.sinceWindow <= Limit
        /\ rlLast.count = rlLast.sinceWindow

\* C5 witness: a check was rejected with Limit + 1 markers in its window, and
\* the log of its key is not made of its window alone.
AdmittedIffStoredCountWitness ==
    /\ rlLast.store = "ok"
    /\ ~rlLast.admitted
    /\ rlLast.sinceWindow = Limit + 1
    /\ rlLast.inWindow = Limit + 1
    /\ \E i \in 1..Len(rlHist) : rlHist[i].now + WindowMs <= rlHist[Len(rlHist)].now

\* C6: of the N checks that ran inside one window on an empty log, exactly
\* min(N, Limit) are admitted, the k-th to commit counts k markers, and each
\* has a marker of its own.
BurstAdmitsExactlyLimit ==
    OneWindow =>
        /\ Cardinality(AdmittedCalls) = Min(Len(rlHist), Limit)
        /\ rlLast.store = "ok" => rlLast.count = Len(rlHist)
        /\ \A k \in RateKeys : ZCard(rlLog[k]) = Len(rlHist)

\* C6 witness: more than Limit checks sampled the same millisecond, were in
\* flight together and committed inside the window.
BurstAdmitsExactlyLimitWitness ==
    /\ OneWindow
    /\ Len(rlHist) > Limit
    /\ \A i \in 1..Len(rlHist) : rlHist[i].now = rlHist[1].now
                                  /\ rlHist[i].at > rlHist[1].now
    /\ Cardinality(AdmittedCalls) = Limit

\* The check i comes after the limit was reached: an earlier check was
\* rejected.
AfterLimitReached(i) == \E j \in 1..(i - 1) : ~rlHist[j].admitted

\* C7 (as stated): after the limit was reached, a check made more than
\* WindowMs after the first check of the burst, the earliest of the checks
\* before it, is admitted.
ReadmittedAfterFirstCall ==
    \A i \in 1..Len(rlHist) :
        (/\ AfterLimitReached(i)
         /\ \E j \in 1..(i - 1) : rlHist[i].now > rlHist[j].now + WindowMs)
            => rlHist[i].admitted

\* C7 (amended): after the limit was reached, a check made more than WindowMs
\* after every earlier check, admitted or rejected, is admitted.
ReadmittedAfterLastCall ==
    \A i \in 1..Len(rlHist) :
        (/\ AfterLimitReached(i)
         /\ \A j \in 1..(i - 1) : rlHist[i].now > rlHist[j].now + WindowMs)
            => rlHist[i].admitted

\* C7 witness: the limit was reached, and a check that sampled its time more
\* than WindowMs after all the earlier ones, and committed while their key
\* was still stored, was admitted.
ReadmittedAfterLastCallWitness ==
    \E i \in 2..Len(rlHist) :
        /\ AfterLimitReached(i)
        /\ \A j \in 1..(i - 1) : rlHist[i].now > rlHist[j].now + WindowMs
        /\ rlHist[i].at < rlHist[i - 1].at + WindowMs
        /\ rlHist[i].admitted

\* The marker the i-th check to commit inserted.
MarkerOf(i) == Marker(rlHist[i].now, i)

QuietWindowReadmits ==
    \A i \in 1..Len(rlHist) :
        (\A j \in 1..(i - 1) : rlHist[j].now + WindowMs <= rlHist[i].now)
            => rlHist[i].admitted

\* C28 witness: more checks than Limit were made in one millisecond, the last
\* of them rejected; the next check was made exactly WindowMs later, while the
\* key was still stored, and was admitted.
QuietWindowReadmitsWitness ==
    \E i \in 2..Len(rlHist) :
        /\ i > Limit
        /\ \A j \in 1..(i - 1) : rlHist[j].now + WindowMs = rlHist[i].now
        /\ rlHist[i].at < rlHist[i - 1].at + WindowMs
        /\ rlHist[i].admitted

\* C8: a check whose transaction did not complete - exec() returned null,
\* exec() threw, or a command of the transaction returned an error - is
\* rejected.
LimiterFailsClosed ==
    rlLast.store \in {"exec-null", "exec-throws", "command-error"} => ~rlLast.admitted

\* ------------------------------------------------------------------------
\* Authorization
\* ------------------------------------------------------------------------

\* The user of the request without the global-admin role.
WithoutAdmin == Some([authUser[1] EXCEPT !.globalRoles = @ \ GLOBAL_ADMIN_ROLES])

\* C9: for an authenticated platform-admin the call returns, whatever the
\* permission, memberships and organization, unless allowGlobalAdmin is
\* false; and then it ends as it does for the same user without the role.
GlobalAdminPrecedence ==
    (/\ authzCall.called
     /\ authUser # None
     /\ PlatformAdmin \in authUser[1].globalRoles)
        => IF authzCall.options.allowGlobalAdmin # Some(FALSE)
           THEN authzCall.outcome = "returns"
           ELSE authzCall.outcome =
                    requireOrganizationPermission(WithoutAdmin, authzCall.permission,
                                                  authzCall.options)

\* C9 witness: a platform-admin without memberships, active context or
\* organization id passed the check.
GlobalAdminPrecedenceWitness ==
    /\ authzCall.called
    /\ authUser # None
    /\ PlatformAdmin \in authUser[1].globalRoles
    /\ DOMAIN authUser[1].organizations = {}
    /\ authUser[1].activeContext = None
    /\ authzCall.options.organizationId = None
    /\ authzCall.options.allowGlobalAdmin = None
    /\ authzCall.outcome = "returns"

\* The organization id the call is about: the explicit one, else that of a
\* customer active context when useActiveContext is set.
TargetOrganization ==
    LET o == authzCall.options
    IN IF o.organizationId # None /\ o.organizationId[1] # "" THEN o.organizationId
       ELSE IF /\ o.useActiveContext = Some(TRUE)
               /\ authUser[1].activeContext # None
               /\ authUser[1].activeContext[1].type = "customer"
            THEN Some(authUser[1].activeContext[1].id)
            ELSE None

\* The roles the call requires: those of a non-empty string or of a
\* non-empty array.
RolesGiven ==
    LET r == authzCall.options.requireOrganizationRole
    IN IF r.kind = "undefined" THEN {}
       ELSE {r.roles[i] : i \in 1..Len(r.roles)} \ (IF r.kind = "string" THEN {EmptyString} ELSE {})

\* C10: when the global-admin short-circuit does not apply, the call returns
\* exactly when the organization id resolves, the organization is in the
\* hydrated map, the membership's roleSlug is one of the required roles when
\* some are given, and the permission is in the organization's set; else it
\* throws an authorization error.
PermissionCheckFailsClosed ==
    (/\ authzCall.called
     /\ authUser # None
     /\ ~(/\ authzCall.options.allowGlobalAdmin # Some(FALSE)
          /\ PlatformAdmin \in authUser[1].globalRoles))
        => LET t == TargetOrganization
               m == authUser[1].organizations
               allowed == /\ t # None
                          /\ t[1] \in DOMAIN m
                          /\ RolesGiven # {} =>
                                 \E r \in RolesGiven : m[t[1]].roleSlug = Some(r)
                          /\ authzCall.permission \in m[t[1]].permissions
           IN IF allowed THEN authzCall.outcome = "returns"
              ELSE authzCall.outcome = "AuthorizationError"

\* The organizations of the token of the request whose resolution threw.
FailedOrganizations ==
    {o \in DOMAIN authRequest.organizations : authRequest.organizations[o].kind = "throws"}

\* C15: a verified token whose permission resolution fails for some of its
\* organization claims still gives an authenticated request; the hydrated map
\* holds exactly the claimed organizations whose resolution returned a set;
\* and a check about an organization whose resolution failed is denied unless
\* the global-admin short-circuit applies.
HydrationDegradesPerOrganization ==
    authRequest.kind = "verified"
        => /\ authUser # None
           /\ authError = None
           /\ DOMAIN authUser[1].organizations =
                  {o \in DOMAIN authRequest.organizations \ FailedOrganizations :
                       authRequest.organizations[o].kind # "null"}
           /\ (/\ authzCall.called
               /\ ~(/\ authzCall.options.allowGlobalAdmin # Some(FALSE)
                    /\ PlatformAdmin \in authUser[1].globalRoles)
               /\ TargetOrganization # None
               /\ TargetOrganization[1] \in FailedOrganizations)
                  => authzCall.outcome = "AuthorizationError"
           /\ \A o \in FailedOrganizations, p \in Perms :
                  ~hasOrganizationPermission(authUser, o, p)

\* C15 witness: the resolution failed for one claimed organization and
\* returned a set for another, which is hydrated, and a check of a permission
\* in the first was denied.
HydrationDegradesPerOrganizationWitness ==
    /\ authRequest.kind = "verified"
    /\ FailedOrganizations # {}
    /\ DOMAIN authUser[1].organizations # {}
    /\ PlatformAdmin \notin authUser[1].globalRoles
    /\ authzCall.called
    /\ TargetOrganization # None
    /\ TargetOrganization[1] \in FailedOrganizations
    /\ authzCall.outcome = "AuthorizationError"

\* C16: a context without a user answers false to hasGlobalRole,
\* hasAnyGlobalRole and hasOrganizationPermission; its requireUser and
\* requireOrganizationPermission throw an authentication error, with the
\* message of the verification failure when there was one; and no context has
\* both a user and an error.
UnauthenticatedGrantsNothing ==
    /\ ~(authUser # None /\ authError # None)
    /\ authRequest.kind \in {"absent", "invalid"} => authUser = None
    /\ authRequest.kind = "invalid" => authError = Some(authRequest.message)
    /\ (authUser = None /\ authzProbe.called)
           => /\ ~authzProbe.hasGlobalRole
              /\ ~authzProbe.hasAnyGlobalRole
              /\ ~authzProbe.hasOrganizationPermission
              /\ authzProbe.requireUser.kind = "AuthenticationError"
              /\ authzProbe.requireUser.detail =
                     (IF authError # None THEN authError[1] ELSE DefaultAuthenticationDetail)
    /\ (authUser = None /\ authzCall.called)
           => /\ authzCall.outcome = "AuthenticationError"
              /\ authzCall.detail =
                     (IF authError # None THEN authError[1] ELSE DefaultAuthenticationDetail)

\* C16 witness: the context of a request whose token failed verification
\* threw an authentication error with the message of the failure.
UnauthenticatedGrantsNothingWitness ==
    /\ authRequest.kind = "invalid"
    /\ authzProbe.called
    /\ authzProbe.requireUser = [kind |-> "AuthenticationError",
                                 detail |-> authRequest.message]

\* ------------------------------------------------------------------------
\* The request pipeline
\* ------------------------------------------------------------------------

\* TRUE when no event of `later` comes before an event of `earlier` in the
\* history of the request.
Before(earlier, later) ==
    \A i, j \in 1..Len(pipe.trace) :
        (pipe.trace[i] \in later /\ pipe.trace[j] \in earlier) => j < i

RejectedBy(event) ==
    /\ pipe.status = 429
    /\ pipe.trace # << >>
    /\ pipe.trace[Len(pipe.trace)] = event

Happened(events) == \E i \in 1..Len(pipe.trace) : pipe.trace[i] \in events

\* C17 (as stated): in every request the rate limits come before credential
\* and token verification, which come before permission hydration, which
\* comes before the handler; and a request rejected by a rate limit has had
\* no token verified, no credential checked, no permission resolved and no
\* handler run.
RateLimitsBeforeEverything ==
    /\ Before({"global-rate-limit", "route-rate-limit"},
              {"verify-token", "credential-check", "hydrate-permissions", "handler"})
    /\ Before({"verify-token", "credential-check"}, {"hydrate-permissions", "handler"})
    /\ Before({"hydrate-permissions"}, {"handler"})
    /\ (RejectedBy("global-rate-limit") \/ RejectedBy("route-rate-limit"))
           => ~Happened({"verify-token", "credential-check", "hydrate-permissions",
                         "handler"})

\* C17 (amended): the global rate limit comes before token verification, which
\* comes before permission hydration, which comes before the route; in the
\* route its own rate limit comes before the credential check and the
\* handler.  A request rejected by the global limit has had nothing else
\* done; a request rejected by the limit of its route has had no credential
\* checked and no handler run.
GlobalLimitBeforeEverything ==
    /\ Before({"global-rate-limit"},
              {"verify-token", "hydrate-permissions", "route-rate-limit",
               "credential-check", "handler"})
    /\ Before({"verify-token"}, {"hydrate-permissions"})
    /\ Before({"verify-token", "hydrate-permissions"},
              {"route-rate-limit", "credential-check", "handler"})
    /\ Before({"route-rate-limit"}, {"credential-check", "handler"})
    /\ RejectedBy("global-rate-limit") => pipe.trace = <<"global-rate-limit">>
    /\ RejectedBy("route-rate-limit") => ~Happened({"credential-check", "handler"})
    /\ pipe.pc # "idle" => pipe.trace = << >> \/ pipe.trace[1] = "global-rate-limit"

\* C17 witness: a request with a valid token was rejected by the rate limit
\* of its route after its token was verified and its permissions hydrated.
GlobalLimitBeforeEverythingWitness ==
    /\ RejectedBy("route-rate-limit")
    /\ pipe.trace = <<"global-rate-limit", "verify-token", "hydrate-permissions",
                      "route-rate-limit">>

\* ------------------------------------------------------------------------
\* Claims on the token service
\* ------------------------------------------------------------------------

\* TRUE when the override of the last mint named a context the user had when
\* the mint was made: an organization of an active membership or the owned
\* customer profile, or the user's singer profile.
OverrideWasValid ==
    LET context == mint.override[1]
    IN CASE context.type = "customer" ->
                context.id \in mint.member \/ mint.owned = Some(context.id)
         [] context.type = "singer" -> mint.singer = Some(context.id)
         [] OTHER -> FALSE

\* C14: createSession or createAccessToken with an override naming a customer
\* organization the user neither is an active member of nor owns, or a singer
\* profile that is not the user's, fails: no access token is signed and no
\* refresh token issued; and claims minted under an override carry that
\* override as their active context, never a default.
InvalidOverrideIsFatal ==
    (mint.op # "none" /\ mint.override # None) =>
        /\ ~OverrideWasValid =>
               /\ mint.outcome = "throws"
               /\ ~mint.signed
               /\ mint.refreshToken = None
               /\ issuedTokens = {}
               /\ refreshStore = << >>
        /\ mint.outcome = "claims" => mint.activeContext = mint.override

\* C14 witness: createSession with an override naming the organization of a
\* suspended membership failed, the user owning (and being an active member
\* of) another customer profile that a default would have selected.
InvalidOverrideIsFatalWitness ==
    /\ mint.op = "createSession"
    /\ mint.override = Some([type |-> "customer", id |-> "o1"])
    /\ mint.member = {"o2"}
    /\ mint.owned = Some("o2")
    /\ mint.outcome = "throws"

\* The organization of `member` that comes first in ascending order of id.
FirstOrganization(member) ==
    OrgOrder[CHOOSE i \in 1..Len(OrgOrder) :
                 /\ OrgOrder[i] \in member
                 /\ \A j \in 1..(i - 1) : OrgOrder[j] \notin member]

\* C23: the claims minted by createSession and createAccessToken carry the
\* override when one was given (and it was valid), else the customer profile
\* the user owns, else the organization of the first active membership in
\* ascending order of id, else the singer profile of the user, else no
\* active context.
ContextFollowsPrecedence ==
    mint.outcome = "claims" =>
        /\ mint.override # None => OverrideWasValid
        /\ mint.activeContext =
               IF mint.override # None THEN mint.override
               ELSE IF mint.owned # None
               THEN Some([type |-> "customer", id |-> mint.owned[1]])
               ELSE IF mint.member # {}
               THEN Some([type |-> "customer", id |-> FirstOrganization(mint.member)])
               ELSE IF mint.singer # None
               THEN Some([type |-> "singer", id |-> mint.singer[1]])
               ELSE None

\* C23 witness: claims were minted without an override for a user who owns
\* a customer profile, is an active member of an organization that comes
\* before it, and has a singer profile: the context is the owned profile.
ContextFollowsPrecedenceWitness ==
    /\ mint.outcome = "claims"
    /\ mint.override = None
    /\ mint.owned = Some("o2")
    /\ mint.member = {"o1", "o2"}
    /\ mint.singer = Some("s1")
    /\ mint.activeContext = Some([type |-> "customer", id |-> "o2"])

\* C26: a minted active context of type customer names an organization that
\* is among the organization claims of the same claim set.
CustomerContextIsClaimed ==
    (mint.outcome = "claims" /\ mint.activeContext # None
        /\ mint.activeContext[1].type = "customer") =>
        \E i \in 1..Len(mint.organizations) :
            mint.organizations[i].id = mint.activeContext[1].id

\* C29: when createSession throws, whether building the claims, signing or
\* issuing the refresh token failed, no refresh token the call created is
\* left verifiable in the refresh-token store.
FailedSessionLeavesNoToken ==
    (mint.op = "createSession" /\ mint.outcome = "throws") =>
        \/ mint.refreshToken = None
        \/ verify(refreshStore, PermUser, mint.refreshToken[1]) = None

\* C19: the permissionsHash of each organization claim minted by createSession
\* or createAccessToken is the version of the membership's permission set as
\* the relational store held it when the mint was made.
MintedClaimsAreFresh ==
    mint.outcome = "claims" =>
        \A i \in 1..Len(mint.organizations) :
            mint.organizations[i].permissionsHash
                = Some(mint.versions[mint.organizations[i].id])

\* ------------------------------------------------------------------------
\* Claims on the age of cached permissions
\* ------------------------------------------------------------------------

\* C20 (as stated): a permission set returned by getOrganizationPermissions
\* was what the relational store held at a moment no more than the TTL
\* before the return.
StalenessWithinTtl ==
    ~resolved.null =>
        /\ resolved.authoritative
        /\ resolved.staleness <= PermTtl

\* C20 (amended): every key of the permission cache is deleted when its TTL
\* has run out, so a cached set is returned no more than the TTL after it was
\* written; it was what the relational store held when the call that cached
\* it read the store, and it is out of date by no more than its age in the
\* cache plus the time that call took from its read to its write.
StalenessWithinTtlOfWrite ==
    /\ \A k \in DOMAIN permCache :
           /\ k \in DOMAIN permStamp
           /\ permClock - permStamp[k].at <= PermTtl
    /\ ~resolved.null =>
           /\ resolved.authoritative
           /\ resolved.age <= PermTtl
           /\ resolved.staleness <= resolved.age + resolved.lag

\* C20 witness: a resolution returned a cached set that the store had ceased
\* to hold more than the TTL earlier, the entry having been written less than
\* the TTL ago by a call that had read the store before.
StalenessWithinTtlOfWriteWitness ==
    /\ ~resolved.null
    /\ resolved.hit
    /\ ~resolved.fresh
    /\ resolved.lag >= 1
    /\ resolved.age >= 1
    /\ resolved.staleness > PermTtl

\* ------------------------------------------------------------------------
\* Claims on the order of the two writes of rotate
\* ------------------------------------------------------------------------

\* C25: in every state of a rotate call that has verified its token, also
\* one in which the call has stopped between its two writes, the token it
\* was called with still verifies or a replacement issued for it does.
RotateKeepsATokenVerifying ==
    \A p \in RotateCallers :
        rot[p].pc # "idle" =>
            \/ verify(refreshStore, rot[p].user, rot[p].token) # None
            \/ \E h \in rotHist :
                   /\ h.user = rot[p].user
                   /\ h.token = rot[p].token
                   /\ verify(refreshStore, h.user, h.new) # None

\* ------------------------------------------------------------------------
\* Claims on the keys of the permission cache
\* ------------------------------------------------------------------------

\* C27: in every reachable state, an entry of the permission cache under a
\* key permissions:{userId}:{organizationId}:{V} with V other than v0 holds a
\* payload whose version is V.
CacheEntryMatchesKey ==
    \A k \in DOMAIN permCache :
        k[3] # VersionZero => permCache[k].version = k[3]

\* ------------------------------------------------------------------------
\* Claims on the version token
\* ------------------------------------------------------------------------

\* The two triples have the same role slug, the same set of permission slugs
\* and the same updatedAt.
SameTriple(a, b) ==
    /\ a.roleSlug = b.roleSlug
    /\ Elements(a.permissions) = Elements(b.permissions)
    /\ a.updatedAt = b.updatedAt

\* C21: the version token depends on the role slug, the set of permission
\* slugs and updatedAt alone, and two triples that differ in one of the three
\* get different tokens: the tokens of two calls are equal exactly when the
\* triples are the same.
VersionDeterminedAndSensitive ==
    versionCheck.done =>
        (SameTriple(versionCheck.first[1], versionCheck.second[1])
            <=> versionCheck.tokens[1] = versionCheck.tokens[2])

\* ------------------------------------------------------------------------
\* Claims on the limits of createRequest
\* ------------------------------------------------------------------------

\* C22: createRequest writes to the database only after both limits admitted
\* the call: while the checks are pending nothing was written, a call that
\* one of the limits rejected ends with the request rows, history rows and
\* notification jobs as they were, and a call that writes or enqueues was
\* admitted by both limits.
LimitsBeforeAnyWrite ==
    /\ rqDb.jobs <= rqDb.requests
    /\ rqDb.history = rqDb.requests
    /\ rq.pc \in {"transaction", "enqueue"} =>
           /\ rqLast.outcome \in {"checked", "written"}
           /\ rqLast.singerAdmitted
           /\ rqLast.venueAdmitted
    /\ rqLast.outcome \in {"written", "created"} =>
           /\ rqLast.singerAdmitted
           /\ rqLast.venueAdmitted
           /\ rqDb.requests = rqLast.db.requests + 1
    /\ rqLast.outcome = "limited" =>
           /\ ~(rqLast.singerAdmitted /\ rqLast.venueAdmitted)
           /\ rq.pc \in {"idle", "limits"}
           /\ rqDb = rqLast.db

\* C22 witness: after requests were created, a call the per-singer limit
\* admitted was rejected by the per-venue limit and nothing was written.
LimitsBeforeAnyWriteWitness ==
    /\ rqLast.outcome = "limited"
    /\ rqLast.singerAdmitted
    /\ ~rqLast.venueAdmitted
    /\ rq.pc = "idle"
    /\ rqDb.requests >= 1
    /\ rqDb.jobs = rqDb.requests
    /\ rqDb = rqLast.db

\* C30: a createRequest call that the per-singer limit rejected left no
\* marker in the log of its venue, and one that the per-venue limit rejected
\* left no marker in the log of its singer.
LimitsAreIndependent ==
    rqLast.outcome = "limited" =>
        /\ ~rqLast.singerAdmitted =>
               rqLast.venueMarker \notin rqLog[VenueKey(rqLast.venue)]
        /\ ~rqLast.venueAdmitted =>
               rqLast.singerMarker \notin rqLog[SingerKey(rqLast.singer)]

====
